---- MODULE Spec2Model ----
(***************************************************************************)
(* Duplicate detection of the registration chatbot.                        *)
(*                                                                         *)
(* DuplicateDetectionService.detectDuplicate is modelled as the state      *)
(* machine its awaits cut it into: the embedding call, the fetch of the    *)
(* registrations that carry an embedding (followed, in the same step, by   *)
(* the synchronous ranking), and the exact license-plate lookup.  The      *)
(* registrations collection is persisted state: it is whatever the         *)
(* database holds when a detection call starts.                            *)
(*                                                                         *)
(* Strings are sequences of characters, so that toUpperCase, the           *)
(* whitespace stripping and the regular-expression match of                *)
(* findByLicensePlate are computed, not assumed.  Cosine similarities are  *)
(* JavaScript numbers: binary64 values, every operation rounded to         *)
(* nearest, ties to even.                                                  *)
(***************************************************************************)
EXTENDS Integers, Sequences, FiniteSets, TLC

VARIABLES
    registrations,          \* the 'registrations' collection, insertion order
    pc,                     \* where the detection call stands
    conversationData,       \* argument of the running detectDuplicate call
    newEmbedding,           \* local newEmbedding.vector of detectDuplicate
    existingRegistrations,  \* local existingRegistrations of detectDuplicate
    lookupKey,              \* argument of the call's findByLicensePlate
    exactMatches,           \* local exactMatches of checkLicensePlateOnly
    outcome,                \* how the call ended: "none", "returned", "raised"
    result,                 \* the DuplicateDetectionResult handed to the caller
    log,                    \* collaborator calls made by the running call
    message,                \* confirmation message handed to the caller
    similarityThreshold,    \* field of the detection service
    cosineOf,               \* the cosine of each pair of compared vectors
    query,                  \* targetEmbedding of the similarity functions
    corpus,                 \* candidateEmbeddings of findSimilarEmbeddings
    cutoff,                 \* threshold handed to findSimilarEmbeddings
    probe,                  \* index of the candidate compared with the target
    cosine,                 \* what calculateCosineSimilarity answered
    hits,                   \* what findSimilarEmbeddings answered
    record,                 \* data handed to normalizeDataForEmbedding
    text,                   \* local text of generateEmbedding
    sessions,               \* the 'sessions' collection, by sessionId
    promptVersion,          \* field of the conversation service
    issued,                 \* the session ids clients have been given
    requests                \* the HTTP requests in flight, by caller

detectionVars == <<registrations, pc, conversationData, newEmbedding,
                   existingRegistrations, lookupKey, exactMatches, outcome,
                   result, log, message>>

\* set when the services are constructed and never assigned again
fixedVars == <<similarityThreshold, cosineOf>>

scorerVars == <<query, corpus, cutoff, probe, cosine, hits>>

normalizerVars == <<record, text>>

chatVars == <<sessions, promptVersion, issued, requests>>

vars == <<fixedVars, detectionVars, scorerVars, normalizerVars, chatVars>>

----------------------------------------------------------------------------
(* Bounds and input sets *)

MaxStore == 2

\* a field that is not present (undefined): no plate is written like this
Absent == <<"undefined">>

\* characters plates are written with: a letter in both cases, a digit,
\* a blank, a hyphen and a regular-expression metacharacter
PlateChars == {"t", "T", "9", " ", "-", "("}

\* ConversationData: the three places a plate may live in
Rec(c, s, k) == [carPlate |-> c, license_plate |-> s, licensePlate |-> k]

Records ==
    { Rec(Absent, Absent, Absent),
      Rec(<<"T", "9">>, Absent, Absent),
      Rec(Absent, <<"t", "9">>, Absent),
      Rec(Absent, Absent, <<"T", "9">>),
      Rec(Absent, Absent, <<"t", " ", "9">>),
      Rec(Absent, Absent, <<"T", "-", "9">>),
      Rec(Absent, Absent, <<"(">>),
      Rec(<<"T", "-", "9">>, Absent, <<"T", "9">>),
      Rec(<<>>, <<"T", "9">>, <<"T", "-", "9">>) }

\* embedding vectors the gateway may answer with
NewVectors == { <<1, 0>>, <<1, 1>>, <<1, 2>> }

\* stored registrations: conversationData and embedding.  Documents written
\* before embeddings were introduced carry none; a document embedded by
\* another model carries a vector of another length.
NoEmbedding == [absent |-> TRUE]

Embedding(v) == [vector |-> v]

StoredData ==
    { Rec(<<"T", "9">>, Absent, Absent),
      Rec(Absent, <<"t", "9">>, Absent),
      Rec(Absent, Absent, <<"T", " ", "9">>),
      Rec(Absent, Absent, <<"T", "-", "9">>) }

StoredEmbeddings ==
    { NoEmbedding, Embedding(<<>>), Embedding(<<1>>), Embedding(<<1, 0>>),
      Embedding(<<2, 1>>) }

StoredVectors == { e.vector : e \in StoredEmbeddings \ {NoEmbedding} }

\* vectors handed to the similarity functions: the zero vector, an axis, a
\* diagonal, their opposites and a vector of another length
Targets == { <<0, 0>>, <<1, 0>>, <<1, 1>> }

CandidateVectors ==
    { <<0, 0>>, <<1, 0>>, <<1, 1>>, <<2, 1>>, <<0 - 1, 0>>, <<0 - 1, 0 - 1>>,
      <<1>> }

Documents == [conversationData : StoredData, embedding : StoredEmbeddings]

Stores == UNION { [1..n -> Documents] : n \in 0..MaxStore }

\* the _id of the i-th inserted document
IdOf(i) == i

----------------------------------------------------------------------------
(* Strings *)

ToUpperChar(c) == IF c = "t" THEN "T" ELSE c

\* String.prototype.toUpperCase
toUpperCase(s) == [i \in 1..Len(s) |-> ToUpperChar(s[i])]

IsNotWhitespace(c) == c # " "

\* s.replace(/\s+/g, '')
stripWhitespace(s) == SelectSeq(s, IsNotWhitespace)

\* new RegExp(`^${source}$`, 'i') throws on an unbalanced parenthesis
RegExpCompiles(source) == \A i \in 1..Len(source) : source[i] # "("

\* match of a compiled ^source$ with flag i; the sources met here hold only
\* literal characters (blanks were stripped, a hyphen outside a class is
\* literal)
RegExpTest(source, s) ==
    /\ Len(s) = Len(source)
    /\ \A i \in 1..Len(s) : ToUpperChar(s[i]) = ToUpperChar(source[i])

\* JavaScript truthiness of an optional string field
Truthy(v) == v # Absent /\ v # <<>>

----------------------------------------------------------------------------
(* Similarity scores: JavaScript numbers, i.e. IEEE 754 binary64 *)

\* bits of a limb of a mantissa

LimbBits == 14

LimbBase == 2 ^ LimbBits

\* naturals of any size: little-endian sequences of limbs below LimbBase,
\* without a zero top limb; zero is the empty sequence
Limb(a, i) == IF i \in 1..Len(a) THEN a[i] ELSE 0

Max(x, y) == IF x >= y THEN x ELSE y

\* the index of the top limb that is not zero
TopLimb(a) ==
    LET used == { i \in 1..Len(a) : a[i] # 0 }
    IN  IF used = {} THEN 0
        ELSE CHOOSE i \in used : \A j \in used : j =< i

BTrim(a) == SubSeq(a, 1, TopLimb(a))

RECURSIVE BFromNat(_)
BFromNat(n) ==
    IF n = 0 THEN <<>>
    ELSE <<n % LimbBase>> \o BFromNat(n \div LimbBase)

\* a + b: limb sums, and a carry into limb i when a limb below overflows
\* and every limb between is full
BAdd(a, b) ==
    IF a = <<>> THEN b
    ELSE IF b = <<>> THEN a
    ELSE LET n == Max(Len(a), Len(b)) + 1
             sum(i) == Limb(a, i) + Limb(b, i)
             overflows == { j \in 1..n : sum(j) >= LimbBase }
             stops == { k \in 1..n : sum(k) # LimbBase - 1 }
             carry(i) ==
                 \E j \in overflows :
                     j < i /\ \A k \in stops : k =< j \/ k >= i
         IN  BTrim([i \in 1..n |->
                       (sum(i) + IF carry(i) THEN 1 ELSE 0) % LimbBase])

\* the products of limbs that fall into column k; a has at most 5 limbs
Column(a, b, k) ==
    Limb(a, 1) * Limb(b, k) + Limb(a, 2) * Limb(b, k - 1)
    + Limb(a, 3) * Limb(b, k - 2) + Limb(a, 4) * Limb(b, k - 3)
    + Limb(a, 5) * Limb(b, k - 4)

\* a * b for a of at most 5 limbs: the columns, split into three limbs each
BMulShort(a, b) ==
    LET n == Len(a) + Len(b)
        column == [k \in 1..n |-> Column(a, b, k)]
        low == [k \in 1..n |-> column[k] % LimbBase]
        mid == [k \in 1..n |-> (column[k] \div LimbBase) % LimbBase]
        high == [k \in 1..n |-> column[k] \div (LimbBase * LimbBase)]
    IN  BAdd(BAdd(BTrim(low), BTrim(<<0>> \o mid)), BTrim(<<0, 0>> \o high))

BMul(a, b) ==
    IF a = <<>> \/ b = <<>> THEN <<>>
    ELSE IF Len(a) =< Len(b) THEN BMulShort(a, b)
    ELSE BMulShort(b, a)

\* a <= b
BLeq(a, b) ==
    IF Len(a) # Len(b) THEN Len(a) < Len(b)
    ELSE LET differ == { i \in 1..Len(a) : a[i] # b[i] }
         IN  \/ differ = {}
             \/ \E i \in differ : /\ \A j \in differ : j =< i
                                   /\ a[i] < b[i]

BPow2(k) == [i \in 1..(k \div LimbBits) |-> 0] \o <<2 ^ (k % LimbBits)>>

\* the number of bits of a limb
LimbLength(n) ==
    CHOOSE l \in 0..LimbBits : n < 2 ^ l /\ (l = 0 \/ n >= 2 ^ (l - 1))

BitLength(a) ==
    IF a = <<>> THEN 0
    ELSE LimbBits * (Len(a) - 1) + LimbLength(a[Len(a)])

\* floor(a / 2^k)
BShiftRight(a, k) ==
    LET limbs == k \div LimbBits
        bits == k % LimbBits
    IN  BTrim([i \in 1..(Len(a) - limbs) |->
                  Limb(a, i + limbs) \div 2 ^ bits
                  + (Limb(a, i + limbs + 1) % 2 ^ bits)
                    * 2 ^ (LimbBits - bits)])

BIsOdd(a) == a # <<>> /\ a[1] % 2 = 1

\* d * 2^i for a digit d below LimbBase
BDigit(d, i) == IF d = 0 THEN <<>> ELSE BMul(<<d>>, BPow2(i))

\* quotients and roots are settled from the top, DigitBits bits at a time
DigitBits == 2

Digits == 0..(2 ^ DigitBits - 1)

\* q with the digit at bit i settled: the largest digit d with
\* (q + d * 2^i) * b <= a
BFloorDivDigit(a, b, q, i) ==
    BAdd(q, BDigit(Cardinality({ d \in Digits \ {0} :
                       BLeq(BMul(BAdd(q, BDigit(d, i)), b), a) }), i))

\* floor(a / b) without its bits below i: the bits above come first, then
\* four digits
RECURSIVE BFloorDivFrom(_, _, _, _)
BFloorDivFrom(a, b, top, i) ==
    IF i > top THEN <<>>
    ELSE LET q == BFloorDivFrom(a, b, top, i + 4 * DigitBits)
         IN  IF q = <<>> /\ ~BLeq(BMul(b, BPow2(i)), a) THEN <<>>
             ELSE BFloorDivDigit(a, b,
                      BFloorDivDigit(a, b,
                          BFloorDivDigit(a, b,
                              BFloorDivDigit(a, b, q, i + 3 * DigitBits),
                              i + 2 * DigitBits),
                          i + DigitBits),
                      i)

\* floor(a / b) for b # 0
BFloorDiv(a, b) ==
    IF BitLength(a) < BitLength(b) THEN <<>>
    ELSE BFloorDivFrom(a, b, BitLength(a) - BitLength(b), 0)

\* s with the digit at bit i settled: the largest digit d with
\* (s + d * 2^i)^2 <= a
BSqrtDigit(a, s, i) ==
    BAdd(s, BDigit(Cardinality({ d \in Digits \ {0} :
                       BLeq(BMul(BAdd(s, BDigit(d, i)),
                                 BAdd(s, BDigit(d, i))), a) }), i))

\* floor(sqrt(a)) without its bits below i
RECURSIVE BSqrtFrom(_, _, _)
BSqrtFrom(a, top, i) ==
    IF i > top THEN <<>>
    ELSE LET s == BSqrtFrom(a, top, i + 4 * DigitBits)
         IN  IF s = <<>> /\ ~BLeq(BPow2(2 * i), a) THEN <<>>
             ELSE BSqrtDigit(a,
                      BSqrtDigit(a,
                          BSqrtDigit(a,
                              BSqrtDigit(a, s, i + 3 * DigitBits),
                              i + 2 * DigitBits),
                          i + DigitBits),
                      i)

\* floor(sqrt(a))
BSqrt(a) == BSqrtFrom(a, (BitLength(a) + 1) \div 2, 0)

\* IEEE 754 binary64 numbers with a normal exponent: sgn * mant * 2^exp,
\* where mant has MantissaBits bits; zero has sgn 0
MantissaBits == 53

FZero == [sgn |-> 0, exp |-> 0, mant |-> <<>>]

\* round to nearest, ties to even, of sgn * (m + f) * 2^e, where 0 <= f < 1
\* and f > 0 iff inexact; an inexact m has more than MantissaBits + 1 bits
Round(sgn, m, e, inexact) ==
    IF m = <<>> THEN FZero
    ELSE LET L == BitLength(m)
         IN  IF L =< MantissaBits
             THEN [sgn |-> sgn, exp |-> e - (MantissaBits - L),
                   mant |-> BMul(m, BPow2(MantissaBits - L))]
             ELSE LET sh == L - MantissaBits
                      q == BShiftRight(m, sh)
                      twice == BAdd(m, m)
                      mid == BMul(BAdd(BAdd(q, q), <<1>>), BPow2(sh))
                      up == IF twice = mid THEN inexact \/ BIsOdd(q)
                            ELSE ~BLeq(twice, mid)
                      r == IF up THEN BAdd(q, <<1>>) ELSE q
                  IN  IF BitLength(r) > MantissaBits
                      THEN [sgn |-> sgn, exp |-> e + sh + 1,
                            mant |-> BPow2(MantissaBits - 1)]
                      ELSE [sgn |-> sgn, exp |-> e + sh, mant |-> r]

Sign(x) == IF x > 0 THEN 1 ELSE IF x < 0 THEN 0 - 1 ELSE 0

Abs(x) == IF x < 0 THEN 0 - x ELSE x

\* the double of an integer
FromInt(n) == Round(Sign(n), BFromNat(Abs(n)), 0, FALSE)

\* x * y
FMul(x, y) ==
    IF x = FZero \/ y = FZero THEN FZero
    ELSE Round(x.sgn * y.sgn, BMul(x.mant, y.mant), x.exp + y.exp, FALSE)

GuardBits == 3

\* x / y for y # 0
FDiv(x, y) ==
    IF x = FZero \/ y = FZero THEN FZero
    ELSE LET k == MantissaBits + GuardBits
             n == BMul(x.mant, BPow2(k))
             q == BFloorDiv(n, y.mant)
         IN  Round(x.sgn * y.sgn, q, x.exp - y.exp - k, BMul(q, y.mant) # n)

\* Math.sqrt(x) for x >= 0
FSqrt(x) ==
    IF x = FZero THEN FZero
    ELSE LET odd == x.exp % 2 = 1
             m == IF odd THEN BAdd(x.mant, x.mant) ELSE x.mant
             e == IF odd THEN x.exp - 1 ELSE x.exp
             k == (MantissaBits + GuardBits) \div 2 + 1
             n == BMul(m, BPow2(2 * k))
             s == BSqrt(n)
         IN  Round(x.sgn, s, (e \div 2) - k, BMul(s, s) # n)

\* the values of type number that are met: zero and the normal doubles
IsNumber(x) ==
    /\ DOMAIN x = {"sgn", "exp", "mant"}
    /\ \/ x = FZero
       \/ /\ x.sgn \in {0 - 1, 1}
          /\ x.exp \in Int
          /\ BitLength(x.mant) = MantissaBits

\* x >= y on scores
ScoreGeq(x, y) ==
    IF x.sgn # y.sgn THEN x.sgn > y.sgn
    ELSE IF x.sgn = 0 THEN TRUE
    ELSE LET greater == IF x.exp # y.exp THEN x.exp > y.exp
                        ELSE BLeq(y.mant, x.mant)
             less == IF x.exp # y.exp THEN x.exp < y.exp
                     ELSE BLeq(x.mant, y.mant)
         IN  IF x.sgn = 1 THEN greater ELSE less

ScoreOne == FromInt(1)

ThresholdPercent == 85

\* parseFloat of a decimal with two places: the double nearest to
\* hundredths / 100
parseFloat(hundredths) == FDiv(FromInt(hundredths), FromInt(100))

\* the sum of the products a[i] * b[i]; it is exact for the small whole
\* components of the model's vectors
RECURSIVE Dot(_, _)
Dot(a, b) ==
    IF Len(a) = 0 THEN 0
    ELSE Head(a) * Head(b) + Dot(Tail(a), Tail(b))

DimensionError == [error |-> "Vectors must have the same dimension"]

\* variant: the norms are left squared
CosineWithoutRoots(vectorA, vectorB) ==
    LET dotProduct == FromInt(Dot(vectorA, vectorB))
        normA == FromInt(Dot(vectorA, vectorA))
        normB == FromInt(Dot(vectorB, vectorB))
    IN  IF normA = FZero \/ normB = FZero THEN FZero
        ELSE FDiv(dotProduct, FMul(normA, normB))

\* calculateCosineSimilarity behind its length check
Cosine(vectorA, vectorB) ==
    LET dotProduct == FromInt(Dot(vectorA, vectorB))
        normA == FSqrt(FromInt(Dot(vectorA, vectorA)))
        normB == FSqrt(FromInt(Dot(vectorB, vectorB)))
    IN  IF normA = FZero \/ normB = FZero THEN FZero
        ELSE FDiv(dotProduct, FMul(normA, normB))

\* the cosines of the pairs of one length among targets and candidates; the
\* function is pure, so that each is computed once
Cosines(targets, candidates) ==
    [p \in { q \in targets \X candidates : Len(q[1]) = Len(q[2]) }
        |-> Cosine(p[1], p[2])]

\* variant: the norms are looked at before the lengths
calculateCosineSimilarityNormsFirst(vectorA, vectorB) ==
    IF Dot(vectorA, vectorA) = 0 \/ Dot(vectorB, vectorB) = 0 THEN FZero
    ELSE IF Len(vectorA) # Len(vectorB) THEN DimensionError
    ELSE cosineOf[<<vectorA, vectorB>>]

\* EmbeddingService.calculateCosineSimilarity; the thrown error is the
\* value DimensionError
calculateCosineSimilarity(vectorA, vectorB) ==
    IF Len(vectorA) # Len(vectorB) THEN DimensionError
    ELSE cosineOf[<<vectorA, vectorB>>]

\* variant: an unstable sort, e goes before the entries it ties with
RECURSIVE InsertBeforeTies(_, _)
InsertBeforeTies(sorted, e) ==
    IF sorted = <<>> THEN <<e>>
    ELSE IF ScoreGeq(e.similarity, Head(sorted).similarity)
         THEN <<e>> \o sorted
         ELSE <<Head(sorted)>> \o InsertBeforeTies(Tail(sorted), e)

\* Array.prototype.sort((a, b) => b.similarity - a.similarity): stable,
\* descending; insertion of e behind every entry that is not smaller
RECURSIVE InsertDescending(_, _)
InsertDescending(sorted, e) ==
    IF sorted = <<>> THEN <<e>>
    ELSE IF ScoreGeq(Head(sorted).similarity, e.similarity)
         THEN <<Head(sorted)>> \o InsertDescending(Tail(sorted), e)
         ELSE <<e>> \o sorted

\* variant: the results are left in candidate order
SortNone(results) == results

RECURSIVE SortDescending(_)
SortDescending(results) ==
    IF results = <<>> THEN <<>>
    ELSE InsertDescending(SortDescending(SubSeq(results, 1, Len(results) - 1)),
                          results[Len(results)])

\* variant: a candidate exactly at the threshold is dropped
AboveThreshold(similarity, threshold) == ~ScoreGeq(threshold, similarity)

\* similarity >= threshold
AtOrAboveThreshold(similarity, threshold) == ScoreGeq(similarity, threshold)

\* the loop of findSimilarEmbeddings over candidateEmbeddings[i..]: it throws
\* at the first candidate of another length, else it retains the entries at
\* or above the threshold
RECURSIVE CollectSimilar(_, _, _, _)
CollectSimilar(targetEmbedding, candidateEmbeddings, threshold, i) ==
    IF i > Len(candidateEmbeddings) THEN [threw |-> FALSE, results |-> <<>>]
    ELSE LET candidate == candidateEmbeddings[i]
             similarity ==
                 calculateCosineSimilarity(targetEmbedding, candidate.vector)
         IN  IF similarity = DimensionError
             THEN [threw |-> TRUE, results |-> <<>>]
             ELSE LET rest == CollectSimilar(targetEmbedding,
                                  candidateEmbeddings, threshold, i + 1)
                  IN  IF rest.threw THEN rest
                      ELSE IF AtOrAboveThreshold(similarity, threshold)
                           THEN [threw |-> FALSE,
                                 results |-> <<[id |-> candidate.id,
                                                similarity |-> similarity]>>
                                             \o rest.results]
                           ELSE rest

\* EmbeddingService.findSimilarEmbeddings
findSimilarEmbeddings(targetEmbedding, candidateEmbeddings, threshold) ==
    LET collected ==
            CollectSimilar(targetEmbedding, candidateEmbeddings, threshold, 1)
    IN  IF collected.threw THEN collected
        ELSE [threw |-> FALSE, results |-> SortDescending(collected.results)]

----------------------------------------------------------------------------
(* RegistrationRepository *)

\* mapToRegistration of the i-th document of the collection
mapToRegistration(store, i) ==
    [id |-> IdOf(i),
     conversationData |-> store[i].conversationData,
     embedding |-> store[i].embedding]

RECURSIVE Reverse(_)
Reverse(s) == IF s = <<>> THEN <<>> ELSE Reverse(Tail(s)) \o <<Head(s)>>

\* find(filter).toArray(): the documents at the positions the filter
\* selects, from position i on, in insertion order
RECURSIVE FindDocs(_, _, _)
FindDocs(store, selected, i) ==
    IF i > Len(store) THEN <<>>
    ELSE IF i \in selected
         THEN <<mapToRegistration(store, i)>>
              \o FindDocs(store, selected, i + 1)
         ELSE FindDocs(store, selected, i + 1)

\* { 'embedding.vector': { $exists: true } }
HasEmbeddingVector(doc) == doc.embedding # NoEmbedding

\* variant: every registration is returned
getAllRegistrations(store) == Reverse(FindDocs(store, 1..Len(store), 1))

\* RegistrationRepository.getAllRegistrationsWithEmbeddings: createdAt grows
\* with the insertion order, sort({ createdAt: -1 }) gives the newest first
getAllRegistrationsWithEmbeddings(store) ==
    Reverse(FindDocs(store,
                     { i \in 1..Len(store) : HasEmbeddingVector(store[i]) },
                     1))

\* variant: the blanks stay
normalizedPlateKeepsBlanks(licensePlate) == toUpperCase(licensePlate)

\* licensePlate.toUpperCase().replace(/\s+/g, '')
normalizedPlate(licensePlate) == stripWhitespace(toUpperCase(licensePlate))

\* the $or filter of findByLicensePlate on one document
PlateFilter(source, doc) ==
    \/ /\ doc.conversationData.licensePlate # Absent
       /\ RegExpTest(source, doc.conversationData.licensePlate)
    \/ /\ doc.conversationData.license_plate # Absent
       /\ RegExpTest(source, doc.conversationData.license_plate)

\* RegistrationRepository.findByLicensePlate; an invalid pattern makes it
\* throw 'Failed to find registration by license plate'
findByLicensePlate(store, licensePlate) ==
    LET source == normalizedPlate(licensePlate)
        selected == { i \in 1..Len(store) : PlateFilter(source, store[i]) }
    IN  IF ~RegExpCompiles(source) THEN [threw |-> TRUE, docs |-> <<>>]
        ELSE [threw |-> FALSE, docs |-> FindDocs(store, selected, 1)]

----------------------------------------------------------------------------
(* DuplicateDetectionService *)

NoResult == [pending |-> TRUE]

NoVector == <<>>

NoKey == Absent

NoData == [pending |-> TRUE]

\* variant: a result without a duplicate still asks for confirmation
NoDuplicateToConfirm == [isDuplicate |-> FALSE, requiresConfirmation |-> TRUE]

NoDuplicate == [isDuplicate |-> FALSE, requiresConfirmation |-> FALSE]

\* variant: the result explains itself
DuplicateExplained(score, id) ==
    [isDuplicate |-> TRUE,
     similarityScore |-> score,
     existingRegistrationId |-> id,
     requiresConfirmation |-> TRUE,
     explanation |-> "Matching fields: license plate"]

Duplicate(score, id) ==
    [isDuplicate |-> TRUE,
     similarityScore |-> score,
     existingRegistrationId |-> id,
     requiresConfirmation |-> TRUE]

\* variant: the flattened locations are probed before the nested one
ExtractPlateFlatFirst(data) ==
    IF Truthy(data.license_plate) THEN data.license_plate
    ELSE IF Truthy(data.licensePlate) THEN data.licensePlate
    ELSE data.carPlate

\* car?.license_plate || conversationData.license_plate
\*                     || conversationData.licensePlate
ExtractPlate(data) ==
    IF Truthy(data.carPlate) THEN data.carPlate
    ELSE IF Truthy(data.license_plate) THEN data.license_plate
    ELSE data.licensePlate

\* return { ... } of detectDuplicate / checkLicensePlateOnly
Decide(res, events) ==
    /\ pc' = "DECIDED"
    /\ outcome' = "returned"
    /\ result' = res
    /\ log' = log \o events

\* an error that leaves detectDuplicate
Raise(events) ==
    /\ pc' = "DECIDED"
    /\ outcome' = "raised"
    /\ result' = NoResult
    /\ log' = log \o events
    /\ UNCHANGED lookupKey

\* checkLicensePlateOnly up to its await of findByLicensePlate
checkLicensePlateOnly(events) ==
    LET licensePlate == ExtractPlate(conversationData)
    IN  IF Truthy(licensePlate)
        THEN /\ pc' = "EXACT_FALLBACK"
             /\ lookupKey' = licensePlate
             /\ log' = log \o events \o <<"fallback", "lookup">>
             /\ UNCHANGED <<outcome, result>>
        ELSE /\ Decide(NoDuplicate, events \o <<"fallback">>)
             /\ UNCHANGED lookupKey

\* variant: the embedding error is thrown on
EmbeddingCatchRethrow(events) == Raise(events)

\* catch (embeddingError) of detectDuplicate
EmbeddingCatch(events) == checkLicensePlateOnly(events)

\* variant: the error is thrown on
OuterCatchRethrow(events) == Raise(events)

\* catch (error) around the body of detectDuplicate
OuterCatch(events) == checkLicensePlateOnly(events)

\* variant: no similar registration means no duplicate
NoSemanticHitReturns(events) ==
    Decide(NoDuplicate, events) /\ UNCHANGED lookupKey

\* the end of the try block: no embedding-based duplicate was found
NoSemanticHit(events) == checkLicensePlateOnly(events)

\* variant: every fetched registration is a candidate
RECURSIVE candidateEmbeddingsUnfiltered(_)
candidateEmbeddingsUnfiltered(existing) ==
    IF existing = <<>> THEN <<>>
    ELSE LET reg == Head(existing)
         IN  <<[id |-> reg.id, vector |-> reg.embedding.vector]>>
             \o candidateEmbeddingsUnfiltered(Tail(existing))

\* the candidates handed to findSimilarEmbeddings
RECURSIVE candidateEmbeddings(_)
candidateEmbeddings(existing) ==
    IF existing = <<>> THEN <<>>
    ELSE LET reg == Head(existing)
         IN  IF reg.embedding # NoEmbedding /\ Len(reg.embedding.vector) > 0
             THEN <<[id |-> reg.id, vector |-> reg.embedding.vector]>>
                  \o candidateEmbeddings(Tail(existing))
             ELSE candidateEmbeddings(Tail(existing))

NoMessage == ""

RECURSIVE JoinChars(_)
\* the string made of the characters of s
JoinChars(s) == IF s = <<>> THEN "" ELSE Head(s) \o JoinChars(Tail(s))

\* variant: the message names the plate that was looked up
generateConfirmationMessageNamingPlate ==
    "A similar registration (" \o JoinChars(lookupKey)
    \o ") was found in our system. "
    \o "Would you like to update the existing information? "
    \o "Please confirm by saying \"yes\" or \"confirm\"."

\* DuplicateDetectionService.generateConfirmationMessage
generateConfirmationMessage ==
    "A similar registration was found in our system. "
    \o "Would you like to update the existing information? "
    \o "Please confirm by saying \"yes\" or \"confirm\"."

\* detectDuplicate is called
Call(data) ==
    /\ pc = "START"
    /\ pc' = "EMBEDDING"
    /\ conversationData' = data
    /\ log' = <<"embed">>
    /\ UNCHANGED <<registrations, message, newEmbedding, existingRegistrations,
                   lookupKey, exactMatches, outcome, result>>
    /\ UNCHANGED <<fixedVars, scorerVars, normalizerVars, chatVars>>

\* generateEmbedding resolves
EmbedOk(vector) ==
    /\ pc = "EMBEDDING"
    /\ newEmbedding' = vector
    /\ pc' = "RANKING"
    /\ log' = log \o <<"fetch">>
    /\ UNCHANGED <<registrations, message, conversationData,
                   existingRegistrations, lookupKey, exactMatches, outcome,
                   result>>
    /\ UNCHANGED <<fixedVars, scorerVars, normalizerVars, chatVars>>

\* generateEmbedding rejects
EmbedFail ==
    /\ pc = "EMBEDDING"
    /\ EmbeddingCatch(<<"embed:error">>)
    /\ UNCHANGED <<registrations, message, conversationData, newEmbedding,
                   existingRegistrations, exactMatches>>
    /\ UNCHANGED <<fixedVars, scorerVars, normalizerVars, chatVars>>

\* getAllRegistrationsWithEmbeddings resolves; the ranking follows without
\* another await
FetchOk ==
    /\ pc = "RANKING"
    /\ LET existing == getAllRegistrationsWithEmbeddings(registrations)
           candidates == candidateEmbeddings(existing)
           similarRegistrations ==
               findSimilarEmbeddings(newEmbedding, candidates,
                                     similarityThreshold)
       IN  /\ existingRegistrations' = existing
           /\ IF Len(existing) = 0
              THEN Decide(NoDuplicate, <<>>) /\ UNCHANGED lookupKey
              ELSE IF Len(candidates) > 0
              THEN IF similarRegistrations.threw
                   THEN OuterCatch(<<"rank", "rank:error">>)
                   ELSE IF Len(similarRegistrations.results) > 0
                   THEN /\ Decide(Duplicate(
                                   similarRegistrations.results[1].similarity,
                                   similarRegistrations.results[1].id),
                                 <<"rank">>)
                        /\ UNCHANGED lookupKey
                   ELSE NoSemanticHit(<<"rank">>)
              ELSE NoSemanticHit(<<>>)
    /\ UNCHANGED <<registrations, message, conversationData, newEmbedding,
                   exactMatches>>
    /\ UNCHANGED <<fixedVars, scorerVars, normalizerVars, chatVars>>

\* getAllRegistrationsWithEmbeddings rejects
FetchFail ==
    /\ pc = "RANKING"
    /\ OuterCatch(<<"fetch:error">>)
    /\ UNCHANGED <<registrations, message, conversationData, newEmbedding,
                   existingRegistrations, exactMatches>>
    /\ UNCHANGED <<fixedVars, scorerVars, normalizerVars, chatVars>>

\* findByLicensePlate settles without a database error
LookupOk ==
    /\ pc = "EXACT_FALLBACK"
    /\ LET found == findByLicensePlate(registrations, lookupKey)
       IN  IF found.threw
           THEN /\ Decide(NoDuplicate, <<"lookup:error">>)
                /\ UNCHANGED exactMatches
           ELSE /\ exactMatches' = found.docs
                /\ IF Len(found.docs) > 0
                   THEN Decide(Duplicate(ScoreOne, found.docs[1].id), <<>>)
                   ELSE Decide(NoDuplicate, <<>>)
    /\ UNCHANGED <<registrations, message, conversationData, newEmbedding,
                   existingRegistrations, lookupKey>>
    /\ UNCHANGED <<fixedVars, scorerVars, normalizerVars, chatVars>>

\* findByLicensePlate rejects with a database error
LookupFail ==
    /\ pc = "EXACT_FALLBACK"
    /\ Decide(NoDuplicate, <<"lookup:error">>)
    /\ UNCHANGED <<registrations, message, conversationData, newEmbedding,
                   existingRegistrations, lookupKey, exactMatches>>
    /\ UNCHANGED <<fixedVars, scorerVars, normalizerVars, chatVars>>

\* generateConfirmationMessage is called; it reads nothing of the service
GenerateMessage ==
    /\ message' = generateConfirmationMessage
    /\ UNCHANGED <<registrations, pc, conversationData, newEmbedding,
                   existingRegistrations, lookupKey, exactMatches, outcome,
                   result, log>>
    /\ UNCHANGED <<fixedVars, scorerVars, normalizerVars, chatVars>>

\* the caller has the result; the service keeps nothing of the call
Return ==
    /\ pc = "DECIDED"
    /\ pc' = "START"
    /\ conversationData' = Rec(Absent, Absent, Absent)
    /\ newEmbedding' = NoVector
    /\ existingRegistrations' = <<>>
    /\ lookupKey' = NoKey
    /\ exactMatches' = <<>>
    /\ outcome' = "none"
    /\ result' = NoResult
    /\ log' = <<>>
    /\ message' = NoMessage
    /\ UNCHANGED registrations
    /\ UNCHANGED <<fixedVars, scorerVars, normalizerVars, chatVars>>

\* session ids: the ids nanoid draws, and one it never draws
Sessions == {"s1", "s2"}

UnknownSession == "s0"

\* the clients whose requests overlap
Callers == {"a", "b"}

\* getSession finds no document: null
NoSession == [missing |-> TRUE]

\* a caller without a request in flight
Idle == [op |-> "none", pc |-> "idle"]

\* the server has just started: no session, no prompt loaded, no request
NoChat ==
    /\ sessions = [s \in Sessions \cup {UnknownSession} |-> NoSession]
    /\ promptVersion = ""
    /\ issued = {}
    /\ requests = [r \in Callers |-> Idle]

\* no detection call is running
NoCall ==
    /\ pc = "START"
    /\ conversationData = Rec(Absent, Absent, Absent)
    /\ newEmbedding = NoVector
    /\ existingRegistrations = <<>>
    /\ lookupKey = NoKey
    /\ exactMatches = <<>>
    /\ outcome = "none"
    /\ result = NoResult
    /\ log = <<>>
    /\ message = NoMessage

\* the similarity functions have not been handed anything
NoScoring ==
    /\ query = NoVector
    /\ corpus = <<>>
    /\ cutoff = FZero
    /\ probe = 0
    /\ cosine = NoResult
    /\ hits = NoResult

\* normalizeDataForEmbedding has not been handed anything
NoNormalizing ==
    /\ record = NoData
    /\ text = NoResult

\* the services are constructed: the threshold is parsed
Constructed(targets, candidates) ==
    /\ similarityThreshold = parseFloat(ThresholdPercent)
    /\ cosineOf = Cosines(targets, candidates)

Init ==
    /\ Constructed(NewVectors, StoredVectors)
    /\ registrations \in Stores
    /\ NoCall
    /\ NoScoring
    /\ NoNormalizing
    /\ NoChat

Next ==
    \/ \E data \in Records : Call(data)
    \/ \E vector \in NewVectors : EmbedOk(vector)
    \/ EmbedFail
    \/ FetchOk
    \/ FetchFail
    \/ LookupOk
    \/ LookupFail
    \/ GenerateMessage
    \/ Return

Spec == Init /\ [][Next]_vars

----------------------------------------------------------------------------
(* The similarity functions of EmbeddingService, applied on their own *)

\* candidateEmbeddings: the i-th candidate carries the id of document i
WithIds(vectors) ==
    [i \in 1..Len(vectors) |-> [id |-> IdOf(i), vector |-> vectors[i]]]

MaxCandidates == 3

CandidateLists ==
    UNION { [1..n -> CandidateVectors] : n \in 0..MaxCandidates }

\* thresholds: none, the default and the highest a cosine is meant to reach
Thresholds == { FZero, similarityThreshold, ScoreOne }

\* calculateCosineSimilarity(targetEmbedding, candidate.vector)
CallCosine(i) ==
    /\ probe' = i
    /\ cosine' = calculateCosineSimilarity(query, corpus[i].vector)
    /\ UNCHANGED <<query, corpus, cutoff, hits>>
    /\ UNCHANGED <<fixedVars, detectionVars, normalizerVars, chatVars>>

\* findSimilarEmbeddings(targetEmbedding, candidateEmbeddings, threshold)
CallFindSimilar ==
    /\ hits' = findSimilarEmbeddings(query, corpus, cutoff)
    /\ UNCHANGED <<query, corpus, cutoff, probe, cosine>>
    /\ UNCHANGED <<fixedVars, detectionVars, normalizerVars, chatVars>>

InitScorer ==
    /\ Constructed(Targets, CandidateVectors)
    /\ registrations = <<>>
    /\ NoCall
    /\ query \in Targets
    /\ corpus \in { WithIds(vectors) : vectors \in CandidateLists }
    /\ cutoff \in Thresholds
    /\ probe = 0
    /\ cosine = NoResult
    /\ hits = NoResult
    /\ NoNormalizing
    /\ NoChat

NextScorer ==
    \/ \E i \in 1..Len(corpus) : CallCosine(i)
    \/ CallFindSimilar

SpecScorer == InitScorer /\ [][NextScorer]_vars

----------------------------------------------------------------------------
(* EmbeddingService.normalizeDataForEmbedding, applied on its own *)

\* the logical fields of a registration, in the order of the canonical text
Fields == 1..7

\* a registration as the repository holds it: the nested objects car and
\* customer and the top-level keys of the older flat layout.  A key that is
\* missing holds Absent; a missing car or customer is one without keys.
RepositoryData(nested, flat) ==
    [car |-> [type |-> nested[1], manufacturer |-> nested[2],
              model |-> nested[3], year |-> nested[4],
              license_plate |-> nested[5]],
     customer |-> [name |-> nested[6], birthdate |-> nested[7]],
     car_type |-> flat[1], manufacturer |-> flat[2], model |-> flat[3],
     year_of_construction |-> flat[4], license_plate |-> flat[5],
     customer_name |-> flat[6], birthdate |-> flat[7],
     carType |-> Absent, year |-> Absent, licensePlate |-> Absent,
     customerName |-> Absent]

\* a registration flattened as RegistrationDataSchema names its keys (and
\* model, which the schema lacks, at the top level as well)
SchemaData(flat) ==
    [car |-> [type |-> Absent, manufacturer |-> Absent, model |-> Absent,
              year |-> Absent, license_plate |-> Absent],
     customer |-> [name |-> Absent, birthdate |-> Absent],
     car_type |-> Absent, manufacturer |-> flat[2], model |-> flat[3],
     year_of_construction |-> Absent, license_plate |-> Absent,
     customer_name |-> Absent, birthdate |-> flat[7],
     carType |-> flat[1], year |-> flat[4], licensePlate |-> flat[5],
     customerName |-> flat[6]]

\* the values of one registration, and those of another one
ValuesA ==
    << <<"S", "U", "V">>, <<"H", "o", "n", "d", "a">>,
       <<"C", "i", "v", "i", "c">>, <<"2", "0", "1", "9">>,
       <<"t", " ", "9">>, <<" ", "T", "t", " ">>, <<"1", "9", "9", "0">> >>

ValuesB ==
    << <<"V", "a", "n">>, <<"K", "i", "a">>, <<"R", "i", "o">>,
       <<"2", "0", "2", "0">>, <<"T", "-", "9">>, <<"t", " ", "T">>,
       <<"2", "0", "0", "0">> >>

\* the fields in present hold the values, the others are missing
Among(values, present) ==
    [f \in Fields |-> IF f \in present THEN values[f] ELSE Absent]

\* records that hold the fields of ValuesA nested and those of ValuesB flat,
\* and schema-shaped records of ValuesA
NormalizerInputs ==
    { RepositoryData(Among(ValuesA, nested), Among(ValuesB, flat)) :
          nested \in SUBSET Fields, flat \in SUBSET Fields }
    \cup { SchemaData(Among(ValuesA, present)) : present \in SUBSET Fields }

ToLowerChar(c) == IF c = "T" THEN "t" ELSE c

\* String.prototype.toLowerCase
toLowerCase(s) == [i \in 1..Len(s) |-> ToLowerChar(s[i])]

RECURSIVE trimStart(_)
trimStart(s) ==
    IF s # <<>> /\ Head(s) = " " THEN trimStart(Tail(s)) ELSE s

\* String.prototype.trim
trim(s) == Reverse(trimStart(Reverse(trimStart(s))))

\* if (value) normalized.push(`${label}: ${text}`)
Pushed(value, label, chars) ==
    IF Truthy(value) THEN <<label \o ": " \o JoinChars(chars)>> ELSE <<>>

\* String(value).toUpperCase().replace(/\s+/g, '')
Plate(value) == stripWhitespace(toUpperCase(value))

\* String(value).toLowerCase().trim()
Name(value) == trim(toLowerCase(value))

\* Array.prototype.join
RECURSIVE Join(_, _)
Join(items, separator) ==
    IF items = <<>> THEN ""
    ELSE IF Len(items) = 1 THEN items[1]
    ELSE items[1] \o separator \o Join(Tail(items), separator)

Sentinel == "No data available"

\* variant: the joined text is returned as it is
OrNothing(joined) == joined

\* joined || 'No data available'
OrSentinel(joined) == IF joined = "" THEN Sentinel ELSE joined

\* the array normalized at the end of normalizeDataForEmbedding
normalized(data) ==
    Pushed(data.car.type, "Car Type", data.car.type)
    \o Pushed(data.car.manufacturer, "Manufacturer", data.car.manufacturer)
    \o Pushed(data.car.model, "Model", data.car.model)
    \o Pushed(data.car.year, "Year", data.car.year)
    \o Pushed(data.car.license_plate, "License Plate",
              Plate(data.car.license_plate))
    \o Pushed(data.car_type, "Car Type", data.car_type)
    \o Pushed(data.manufacturer, "Manufacturer", data.manufacturer)
    \o Pushed(data.model, "Model", data.model)
    \o Pushed(data.year_of_construction, "Year", data.year_of_construction)
    \o Pushed(data.license_plate, "License Plate", Plate(data.license_plate))
    \o Pushed(data.customer.name, "Customer", Name(data.customer.name))
    \o Pushed(data.customer.birthdate, "Birthdate", data.customer.birthdate)
    \o Pushed(data.customer_name, "Customer", Name(data.customer_name))
    \o Pushed(data.birthdate, "Birthdate", data.birthdate)

\* EmbeddingService.normalizeDataForEmbedding
normalizeDataForEmbedding(data) == OrSentinel(Join(normalized(data), ", "))

\* the text of a call that has returned
Text(string) == [value |-> string]

\* generateEmbedding computes the text it hands to the embedding call
CallNormalize ==
    /\ text' = Text(normalizeDataForEmbedding(record))
    /\ UNCHANGED record
    /\ UNCHANGED <<fixedVars, detectionVars, scorerVars, chatVars>>

InitNormalizer ==
    /\ Constructed({}, {})
    /\ registrations = <<>>
    /\ NoCall
    /\ NoScoring
    /\ record \in NormalizerInputs
    /\ text = NoResult
    /\ NoChat

NextNormalizer == CallNormalize

SpecNormalizer == InitNormalizer /\ [][NextNormalizer]_vars

----------------------------------------------------------------------------
(* SessionRepository *)

\* texts of the users and of the model
UserTexts == {"x", "y"}

Replies == {"p"}

\* a session takes no further message once it holds this many
MaxMessages == 3

FirstUserMessage == "Hello, I would like to get a car insurance quote."

Said(role, content) == [role |-> role, content |-> content]

\* variant: the new session waits for its greeting before it is active
NewSessionCancelled(version) ==
    [promptVersion |-> version, messages |-> <<>>, state |-> "cancelled"]

\* the document createSession inserts
NewSession(version) ==
    [promptVersion |-> version, messages |-> <<>>, state |-> "active"]

\* SessionRepository.createSession: insertOne, which the unique index on
\* sessionId rejects for an id that is stored already
createSession(store, sessionId, version) ==
    IF store[sessionId] # NoSession
    THEN [threw |-> TRUE, store |-> store]
    ELSE [threw |-> FALSE,
          store |-> [store EXCEPT ![sessionId] = NewSession(version)]]

\* SessionRepository.getSession: findOne({ sessionId })
getSession(store, sessionId) == store[sessionId]

\* SessionRepository.updateSessionMessages: updateOne with $set of messages
updateSessionMessages(store, sessionId, messages) ==
    IF store[sessionId] = NoSession THEN store
    ELSE [store EXCEPT ![sessionId].messages = messages]

\* SessionRepository.completeSession: updateOne with $set of state
completeSession(store, sessionId) ==
    IF store[sessionId] = NoSession THEN store
    ELSE [store EXCEPT ![sessionId].state = "completed"]

----------------------------------------------------------------------------
(* The router and the handlers of the chat endpoints *)

NoResponse == [pending |-> TRUE]

\* the status the route's catch block sets
ErrorStatus(endpoint) ==
    CASE endpoint = "start" -> 400
      [] endpoint = "message" -> 400
      [] endpoint = "complete" -> 400
      [] endpoint = "session" -> 404
      [] endpoint = "registrations" -> 500

\* the message of the error the handler's catch block throws
HandlerError(endpoint) ==
    CASE endpoint = "start" -> "Failed to start chat session"
      [] endpoint = "message" -> "Failed to send message"
      [] endpoint = "complete" -> "Failed to complete chat session"
      [] endpoint = "session" -> "Failed to get session"
      [] endpoint = "registrations" -> "Failed to get registrations"

\* createErrorResponse for an Error that is no H3Error
createErrorResponse(error, statusCode) ==
    [error |-> [message |-> error, statusCode |-> statusCode]]

\* the handler returns: the response is the value, with status 200
Answered(req, body, events) ==
    [req EXCEPT !.pc = "responded",
                !.response = [status |-> 200, body |-> body],
                !.log = req.log \o events]

\* something throws inside the handler: its catch block throws the
\* handler's error, the route's catch block sets the status and answers.
\* cause is what went wrong: "invalid" input, session "notFound", or an
\* "unexpected" failure of the database or of the model
Failed(req, cause, events) ==
    [req EXCEPT !.pc = "responded",
                !.cause = cause,
                !.response =
                    [status |-> ErrorStatus(req.op),
                     body |-> createErrorResponse(HandlerError(req.op),
                                                  ErrorStatus(req.op))],
                !.log = req.log \o events]

\* a request as it enters its handler
Request(op, at, sessionId, content) ==
    [op |-> op, pc |-> at, sessionId |-> sessionId, message |-> content,
     session |-> NoSession, text |-> "", cause |-> "none",
     response |-> NoResponse, log |-> <<>>]

callVars == <<pc, conversationData, newEmbedding, existingRegistrations,
              lookupKey, exactMatches, outcome, result, log, message>>

\* what the session endpoints never touch
beyondSessions == <<fixedVars, registrations, callVars, scorerVars,
                    normalizerVars>>

\* the request of caller r moves on
Becomes(r, req) == requests' = [requests EXCEPT ![r] = req]

At(r, op, at) == requests[r].op = op /\ requests[r].pc = at

\* POST /api/chat/start: handleChatStart draws a session id no session has
\* and, the first time, loads the prompt
CallStart(r, sessionId) ==
    /\ requests[r] = Idle
    /\ sessions[sessionId] = NoSession
    /\ \A q \in Callers :
          requests[q].op = "start" => requests[q].sessionId # sessionId
    /\ Becomes(r, Request("start",
                          IF promptVersion = "" THEN "initialize"
                          ELSE "createSession",
                          sessionId, ""))
    /\ UNCHANGED <<sessions, promptVersion, issued>>
    /\ UNCHANGED beyondSessions

\* conversationService.initialize resolves
InitializeOk(r) ==
    /\ At(r, "start", "initialize")
    /\ promptVersion' = "v1"
    /\ Becomes(r, [requests[r] EXCEPT !.pc = "createSession"])
    /\ UNCHANGED <<sessions, issued>>
    /\ UNCHANGED beyondSessions

\* createSession of startConversation settles without a database error
CreateSessionOk(r) ==
    /\ At(r, "start", "createSession")
    /\ LET created ==
               createSession(sessions, requests[r].sessionId, promptVersion)
       IN  /\ sessions' = created.store
           /\ Becomes(r, IF created.threw
                         THEN Failed(requests[r], "unexpected",
                                     <<"createSession:error">>)
                         ELSE [requests[r] EXCEPT
                                  !.pc = "greeting",
                                  !.log = @ \o <<"createSession",
                                                 "generateText">>])
    /\ UNCHANGED <<promptVersion, issued>>
    /\ UNCHANGED beyondSessions

\* createSession rejects with a database error
CreateSessionFail(r) ==
    /\ At(r, "start", "createSession")
    /\ Becomes(r, Failed(requests[r], "unexpected",
                         <<"createSession:error">>))
    /\ UNCHANGED <<sessions, promptVersion, issued>>
    /\ UNCHANGED beyondSessions

\* generateText of startConversation resolves
GreetingOk(r, reply) ==
    /\ At(r, "start", "greeting")
    /\ Becomes(r, [requests[r] EXCEPT !.pc = "storeGreeting",
                                      !.text = reply])
    /\ UNCHANGED <<sessions, promptVersion, issued>>
    /\ UNCHANGED beyondSessions

\* generateText of startConversation rejects
GreetingFail(r) ==
    /\ At(r, "start", "greeting")
    /\ Becomes(r, Failed(requests[r], "unexpected",
                         <<"generateText:error">>))
    /\ UNCHANGED <<sessions, promptVersion, issued>>
    /\ UNCHANGED beyondSessions

\* updateSessionMessages of startConversation resolves; the client gets the
\* session id
StoreGreetingOk(r) ==
    /\ At(r, "start", "storeGreeting")
    /\ LET req == requests[r]
           messages == <<Said("user", FirstUserMessage),
                         Said("assistant", req.text)>>
       IN  /\ sessions' =
                 updateSessionMessages(sessions, req.sessionId, messages)
           /\ Becomes(r, Answered(req,
                                  [sessionId |-> req.sessionId,
                                   message |-> req.text],
                                  <<"updateSessionMessages">>))
           /\ issued' = issued \cup {req.sessionId}
    /\ UNCHANGED promptVersion
    /\ UNCHANGED beyondSessions

\* updateSessionMessages of startConversation rejects
StoreGreetingFail(r) ==
    /\ At(r, "start", "storeGreeting")
    /\ Becomes(r, Failed(requests[r], "unexpected",
                         <<"updateSessionMessages:error">>))
    /\ UNCHANGED <<sessions, promptVersion, issued>>
    /\ UNCHANGED beyondSessions

\* the session ids a client may send: those it was given, one that names no
\* session, and none at all
SentIds == issued \cup {UnknownSession, ""}

\* a body with a session id reaches a session that takes further messages
TakesMessages(sessionId) ==
    IF sessionId = "" THEN TRUE
    ELSE IF sessions[sessionId] = NoSession THEN TRUE
    ELSE Len(sessions[sessionId].messages) < MaxMessages

\* POST /api/chat/message: handleChatMessage reads the body and calls
\* sendMessage, which awaits getSession
CallMessage(r, sessionId, userMessage) ==
    /\ requests[r] = Idle
    /\ TakesMessages(sessionId)
    /\ LET req == Request("message", "getSession", sessionId, userMessage)
       IN  Becomes(r, IF sessionId = "" \/ userMessage = ""
                      THEN Failed(req, "invalid", <<>>)
                      ELSE [req EXCEPT !.log = <<"getSession">>])
    /\ UNCHANGED <<sessions, promptVersion, issued>>
    /\ UNCHANGED beyondSessions

\* getSession of sendMessage resolves
MessageSessionOk(r) ==
    /\ At(r, "message", "getSession")
    /\ LET req == requests[r]
           session == getSession(sessions, req.sessionId)
           read == [req EXCEPT !.session = session]
       IN  Becomes(r, IF session = NoSession
                      THEN Failed(read, "notFound", <<>>)
                      ELSE IF session.state # "active"
                      THEN Failed(read, "invalid", <<>>)
                      ELSE [read EXCEPT !.pc = "generateText",
                                        !.log = @ \o <<"generateText">>])
    /\ UNCHANGED <<sessions, promptVersion, issued>>
    /\ UNCHANGED beyondSessions

\* getSession of sendMessage rejects
MessageSessionFail(r) ==
    /\ At(r, "message", "getSession")
    /\ Becomes(r, Failed(requests[r], "unexpected", <<"getSession:error">>))
    /\ UNCHANGED <<sessions, promptVersion, issued>>
    /\ UNCHANGED beyondSessions

\* generateText of sendMessage resolves
ReplyOk(r, reply) ==
    /\ At(r, "message", "generateText")
    /\ Becomes(r, [requests[r] EXCEPT
                      !.pc = "updateMessages",
                      !.text = reply,
                      !.log = @ \o <<"updateSessionMessages">>])
    /\ UNCHANGED <<sessions, promptVersion, issued>>
    /\ UNCHANGED beyondSessions

\* generateText of sendMessage rejects
ReplyFail(r) ==
    /\ At(r, "message", "generateText")
    /\ Becomes(r, Failed(requests[r], "unexpected",
                         <<"generateText:error">>))
    /\ UNCHANGED <<sessions, promptVersion, issued>>
    /\ UNCHANGED beyondSessions

\* the messages sendMessage writes: the ones it read, the user's and the
\* assistant's
updatedMessages(req) ==
    req.session.messages
    \o <<Said("user", req.message), Said("assistant", req.text)>>

\* updateSessionMessages of sendMessage resolves
StoreMessagesOk(r) ==
    /\ At(r, "message", "updateMessages")
    /\ LET req == requests[r]
       IN  /\ sessions' = updateSessionMessages(sessions, req.sessionId,
                                                updatedMessages(req))
           /\ Becomes(r, Answered(req,
                                  [sessionId |-> req.sessionId,
                                   message |-> req.text],
                                  <<>>))
    /\ UNCHANGED <<promptVersion, issued>>
    /\ UNCHANGED beyondSessions

\* updateSessionMessages of sendMessage rejects
StoreMessagesFail(r) ==
    /\ At(r, "message", "updateMessages")
    /\ Becomes(r, Failed(requests[r], "unexpected",
                         <<"updateSessionMessages:error">>))
    /\ UNCHANGED <<sessions, promptVersion, issued>>
    /\ UNCHANGED beyondSessions

\* GET /api/chat/session/:id: handleGetSession awaits getSession
CallGetSession(r, sessionId) ==
    /\ requests[r] = Idle
    /\ Becomes(r, [Request("session", "getSession", sessionId, "")
                      EXCEPT !.log = <<"getSession">>])
    /\ UNCHANGED <<sessions, promptVersion, issued>>
    /\ UNCHANGED beyondSessions

\* getSession of handleGetSession resolves
GetSessionOk(r) ==
    /\ At(r, "session", "getSession")
    /\ LET req == requests[r]
           session == getSession(sessions, req.sessionId)
           read == [req EXCEPT !.session = session]
       IN  Becomes(r, IF session = NoSession
                      THEN Failed(read, "notFound", <<>>)
                      ELSE Answered(read, [session |-> session], <<>>))
    /\ UNCHANGED <<sessions, promptVersion, issued>>
    /\ UNCHANGED beyondSessions

\* getSession of handleGetSession rejects
GetSessionFail(r) ==
    /\ At(r, "session", "getSession")
    /\ Becomes(r, Failed(requests[r], "unexpected", <<"getSession:error">>))
    /\ UNCHANGED <<sessions, promptVersion, issued>>
    /\ UNCHANGED beyondSessions

\* the completion of a chat reaches its completeSession
CompleteSession(sessionId) ==
    /\ sessions' = completeSession(sessions, sessionId)
    /\ sessions' # sessions
    /\ UNCHANGED <<promptVersion, issued, requests>>
    /\ UNCHANGED beyondSessions

\* the response is sent; the server keeps nothing of the request
Release(r) ==
    /\ requests[r].pc = "responded"
    /\ Becomes(r, Idle)
    /\ UNCHANGED <<sessions, promptVersion, issued>>
    /\ UNCHANGED beyondSessions

InitConversation ==
    /\ Constructed({}, {})
    /\ registrations = <<>>
    /\ NoCall
    /\ NoScoring
    /\ NoNormalizing
    /\ NoChat

NextConversation ==
    \/ \E r \in Callers, sessionId \in Sessions : CallStart(r, sessionId)
    \/ \E r \in Callers : InitializeOk(r)
    \/ \E r \in Callers : CreateSessionOk(r)
    \/ \E r \in Callers : CreateSessionFail(r)
    \/ \E r \in Callers, reply \in Replies : GreetingOk(r, reply)
    \/ \E r \in Callers : GreetingFail(r)
    \/ \E r \in Callers : StoreGreetingOk(r)
    \/ \E r \in Callers : StoreGreetingFail(r)
    \/ \E r \in Callers, sessionId \in SentIds,
          userMessage \in UserTexts \cup {""} :
          CallMessage(r, sessionId, userMessage)
    \/ \E r \in Callers : MessageSessionOk(r)
    \/ \E r \in Callers : MessageSessionFail(r)
    \/ \E r \in Callers, reply \in Replies : ReplyOk(r, reply)
    \/ \E r \in Callers : ReplyFail(r)
    \/ \E r \in Callers : StoreMessagesOk(r)
    \/ \E r \in Callers : StoreMessagesFail(r)
    \/ \E r \in Callers, sessionId \in issued \cup {UnknownSession} :
          CallGetSession(r, sessionId)
    \/ \E r \in Callers : GetSessionOk(r)
    \/ \E r \in Callers : GetSessionFail(r)
    \/ \E sessionId \in issued : CompleteSession(sessionId)
    \/ \E r \in Callers : Release(r)

SpecConversation == InitConversation /\ [][NextConversation]_vars

----------------------------------------------------------------------------
(* POST /api/chat/complete *)

\* what extractConversationData may return: records of the shape of
\* RegistrationDataSchema, whose plates are upper case without whitespace
Extracted ==
    { Rec(Absent, Absent, <<"T", "9">>),
      Rec(Absent, Absent, <<"T", "-", "9">>) }

\* the vector the embedding gateway answers with for the text of a record,
\* when it answers: equal records get equal vectors
GatewayVector(data) ==
    IF data.licensePlate = <<"T", "9">> THEN <<1, 0>> ELSE <<1, 1>>

\* the vectors of the records a conversation may hold
CompletionVectors == { GatewayVector(data) : data \in Extracted }

\* the document createRegistration inserts
NewRegistration(sessionId, version, data, embedding) ==
    [sessionId |-> sessionId,
     promptVersion |-> version,
     conversationData |-> data,
     embedding |-> embedding]

\* insertOne into 'registrations', which the unique index on sessionId
\* rejects for a session that has a registration already
insertRegistration(store, doc) ==
    IF \E i \in 1..Len(store) : store[i].sessionId = doc.sessionId
    THEN [threw |-> TRUE, store |-> store, id |-> 0]
    ELSE [threw |-> FALSE,
          store |-> Append(store, doc),
          id |-> IdOf(Len(store) + 1)]

NoRegistration == IdOf(0)

\* a completion request as it enters handleChatComplete
Completion(sessionId) ==
    [op |-> "complete", pc |-> "getSession", sessionId |-> sessionId,
     data |-> NoData, newEmbedding |-> NoVector, lookupKey |-> NoKey,
     result |-> NoResult, embedding |-> NoEmbedding,
     registrationId |-> NoRegistration, cause |-> "none",
     response |-> NoResponse, log |-> <<>>]

\* the answer to a completion that met a duplicate
DuplicateAnswer ==
    [success |-> FALSE,
     message |-> generateConfirmationMessage,
     duplicateDetected |-> TRUE,
     duplicateConfirmationRequired |-> TRUE]

\* the answer to a completion that stored its registration
CompletedAnswer(registrationId) ==
    [success |-> TRUE,
     message |-> "Registration completed successfully. Thank you!",
     registrationId |-> registrationId,
     duplicateDetected |-> FALSE]

\* variant: the registration is created whatever the detection reported
afterDetectionAlwaysCreates(req) ==
    [req EXCEPT !.pc = "createEmbedding"]

\* handleChatComplete once detectDuplicate has resolved: it answers the
\* duplicate, or calls createRegistration, which awaits generateEmbedding
afterDetection(req) ==
    IF req.result.isDuplicate /\ req.result.requiresConfirmation
    THEN Answered(req, DuplicateAnswer, <<>>)
    ELSE [req EXCEPT !.pc = "createEmbedding"]

\* return { ... } of detectDuplicate / checkLicensePlateOnly in a request:
\* the locals of the call are gone, the handler has the result
Decided(req, res, events) ==
    afterDetection([req EXCEPT !.result = res,
                               !.newEmbedding = NoVector,
                               !.lookupKey = NoKey,
                               !.log = @ \o events])

\* checkLicensePlateOnly in a request, up to its await of findByLicensePlate
PlateCheck(req, events) ==
    LET licensePlate == ExtractPlate(req.data)
    IN  IF Truthy(licensePlate)
        THEN [req EXCEPT !.pc = "lookup",
                         !.lookupKey = licensePlate,
                         !.log = @ \o events]
        ELSE Decided(req, NoDuplicate, events)

\* variant: newEmbedding is a field the calls in flight share
newEmbeddingShared(r) ==
    LET others == { q \in Callers \ {r} :
                       /\ requests[q].op = "complete"
                       /\ requests[q].newEmbedding # NoVector }
    IN  IF others = {} THEN requests[r].newEmbedding
        ELSE requests[CHOOSE q \in others : TRUE].newEmbedding

\* let newEmbedding: a local of the running detectDuplicate call
newEmbeddingOf(r) == requests[r].newEmbedding

\* variant: a registration whose embedding failed is stored without one
createWithoutEmbedding(req, events) ==
    [req EXCEPT !.pc = "insert", !.log = @ \o events]

\* generateEmbedding rejects in createRegistration: 'Failed to create
\* registration' leaves it and handleChatComplete fails
createWithEmbeddingOnly(req, events) == Failed(req, "unexpected", events)

\* variant: the session is completed although no registration was stored
insertFailedGoesOn(req, events) ==
    [req EXCEPT !.pc = "completeSession", !.log = @ \o events]

\* insertOne rejects in createRegistration: 'Failed to create registration'
\* leaves it and handleChatComplete fails
insertFailed(req, events) == Failed(req, "unexpected", events)

\* what a completion never touches
beyondCompletion == <<fixedVars, callVars, scorerVars, normalizerVars,
                      promptVersion, issued>>

\* handleChatComplete reads the body and calls extractConversationData,
\* which awaits getSession
CallComplete(r, sessionId) ==
    /\ requests[r] = Idle
    /\ LET req == Completion(sessionId)
       IN  Becomes(r, IF sessionId = ""
                      THEN Failed(req, "invalid", <<>>)
                      ELSE req)
    /\ UNCHANGED <<registrations, sessions>>
    /\ UNCHANGED beyondCompletion

\* getSession of extractConversationData resolves
ExtractSessionOk(r) ==
    /\ At(r, "complete", "getSession")
    /\ LET req == requests[r]
       IN  Becomes(r, IF getSession(sessions, req.sessionId) = NoSession
                      THEN Failed(req, "notFound", <<>>)
                      ELSE [req EXCEPT !.pc = "generateObject"])
    /\ UNCHANGED <<registrations, sessions>>
    /\ UNCHANGED beyondCompletion

\* getSession of extractConversationData rejects
ExtractSessionFail(r) ==
    /\ At(r, "complete", "getSession")
    /\ Becomes(r, Failed(requests[r], "unexpected", <<"getSession:error">>))
    /\ UNCHANGED <<registrations, sessions>>
    /\ UNCHANGED beyondCompletion

\* generateObject of extractConversationData resolves; detectDuplicate is
\* called and awaits generateEmbedding
ExtractOk(r, data) ==
    /\ At(r, "complete", "generateObject")
    /\ Becomes(r, [requests[r] EXCEPT !.pc = "embedding", !.data = data])
    /\ UNCHANGED <<registrations, sessions>>
    /\ UNCHANGED beyondCompletion

\* generateObject of extractConversationData rejects
ExtractFail(r) ==
    /\ At(r, "complete", "generateObject")
    /\ Becomes(r, Failed(requests[r], "unexpected",
                         <<"generateObject:error">>))
    /\ UNCHANGED <<registrations, sessions>>
    /\ UNCHANGED beyondCompletion

\* generateEmbedding of detectDuplicate resolves
DetectEmbedOk(r) ==
    /\ At(r, "complete", "embedding")
    /\ Becomes(r, [requests[r] EXCEPT !.pc = "ranking",
                                      !.newEmbedding =
                                          GatewayVector(requests[r].data)])
    /\ UNCHANGED <<registrations, sessions>>
    /\ UNCHANGED beyondCompletion

\* generateEmbedding of detectDuplicate rejects
DetectEmbedFail(r) ==
    /\ At(r, "complete", "embedding")
    /\ Becomes(r, PlateCheck(requests[r], <<"embed:error">>))
    /\ UNCHANGED <<registrations, sessions>>
    /\ UNCHANGED beyondCompletion

\* getAllRegistrationsWithEmbeddings of detectDuplicate resolves; the
\* ranking follows without another await
DetectFetchOk(r) ==
    /\ At(r, "complete", "ranking")
    /\ LET existing == getAllRegistrationsWithEmbeddings(registrations)
           candidates == candidateEmbeddings(existing)
           similarRegistrations ==
               findSimilarEmbeddings(newEmbeddingOf(r), candidates,
                                     similarityThreshold)
           req == requests[r]
       IN  Becomes(r,
               IF Len(existing) = 0 THEN Decided(req, NoDuplicate, <<>>)
               ELSE IF Len(candidates) > 0
               THEN IF similarRegistrations.threw
                    THEN PlateCheck(req, <<"rank:error">>)
                    ELSE IF Len(similarRegistrations.results) > 0
                    THEN Decided(req,
                                 Duplicate(
                                   similarRegistrations.results[1].similarity,
                                   similarRegistrations.results[1].id),
                                 <<>>)
                    ELSE PlateCheck(req, <<>>)
               ELSE PlateCheck(req, <<>>))
    /\ UNCHANGED <<registrations, sessions>>
    /\ UNCHANGED beyondCompletion

\* getAllRegistrationsWithEmbeddings of detectDuplicate rejects
DetectFetchFail(r) ==
    /\ At(r, "complete", "ranking")
    /\ Becomes(r, PlateCheck(requests[r], <<"fetch:error">>))
    /\ UNCHANGED <<registrations, sessions>>
    /\ UNCHANGED beyondCompletion

\* findByLicensePlate of checkLicensePlateOnly settles without a database
\* error
DetectLookupOk(r) ==
    /\ At(r, "complete", "lookup")
    /\ LET req == requests[r]
           found == findByLicensePlate(registrations, req.lookupKey)
       IN  Becomes(r,
               IF found.threw
               THEN Decided(req, NoDuplicate, <<"lookup:error">>)
               ELSE IF Len(found.docs) > 0
               THEN Decided(req, Duplicate(ScoreOne, found.docs[1].id),
                            <<>>)
               ELSE Decided(req, NoDuplicate, <<>>))
    /\ UNCHANGED <<registrations, sessions>>
    /\ UNCHANGED beyondCompletion

\* findByLicensePlate rejects with a database error
DetectLookupFail(r) ==
    /\ At(r, "complete", "lookup")
    /\ Becomes(r, Decided(requests[r], NoDuplicate, <<"lookup:error">>))
    /\ UNCHANGED <<registrations, sessions>>
    /\ UNCHANGED beyondCompletion

\* generateEmbedding of createRegistration resolves
CreateEmbedOk(r) ==
    /\ At(r, "complete", "createEmbedding")
    /\ Becomes(r, [requests[r] EXCEPT
                      !.pc = "insert",
                      !.embedding = Embedding(GatewayVector(requests[r].data))])
    /\ UNCHANGED <<registrations, sessions>>
    /\ UNCHANGED beyondCompletion

\* generateEmbedding of createRegistration rejects
CreateEmbedFail(r) ==
    /\ At(r, "complete", "createEmbedding")
    /\ Becomes(r, createWithEmbeddingOnly(requests[r],
                                          <<"createEmbedding:error">>))
    /\ UNCHANGED <<registrations, sessions>>
    /\ UNCHANGED beyondCompletion

\* insertOne of createRegistration settles without a database error;
\* handleChatComplete goes on to completeSession
InsertOk(r) ==
    /\ At(r, "complete", "insert")
    /\ LET req == requests[r]
           inserted ==
               insertRegistration(registrations,
                                  NewRegistration(req.sessionId,
                                                  promptVersion, req.data,
                                                  req.embedding))
       IN  /\ registrations' = inserted.store
           /\ Becomes(r, IF inserted.threw
                         THEN insertFailed(req, <<"insert:error">>)
                         ELSE [req EXCEPT
                                  !.pc = "completeSession",
                                  !.embedding = NoEmbedding,
                                  !.registrationId = inserted.id])
    /\ UNCHANGED sessions
    /\ UNCHANGED beyondCompletion

\* insertOne of createRegistration rejects with a database error
InsertFail(r) ==
    /\ At(r, "complete", "insert")
    /\ Becomes(r, insertFailed(requests[r], <<"insert:error">>))
    /\ UNCHANGED <<registrations, sessions>>
    /\ UNCHANGED beyondCompletion

\* completeSession resolves; handleChatComplete answers
CompleteOk(r) ==
    /\ At(r, "complete", "completeSession")
    /\ LET req == requests[r]
       IN  /\ sessions' = completeSession(sessions, req.sessionId)
           /\ Becomes(r, Answered(req, CompletedAnswer(req.registrationId),
                                  <<>>))
    /\ UNCHANGED registrations
    /\ UNCHANGED beyondCompletion

\* completeSession rejects
CompleteFail(r) ==
    /\ At(r, "complete", "completeSession")
    /\ Becomes(r, Failed(requests[r], "unexpected",
                         <<"completeSession:error">>))
    /\ UNCHANGED <<registrations, sessions>>
    /\ UNCHANGED beyondCompletion

\* the response is sent; the server keeps nothing of the request
ReleaseCompletion(r) ==
    /\ At(r, "complete", "responded")
    /\ Becomes(r, Idle)
    /\ UNCHANGED <<registrations, sessions>>
    /\ UNCHANGED beyondCompletion

\* a session whose greeting has been stored
Greeted ==
    [NewSession("v1") EXCEPT
        !.messages = <<Said("user", FirstUserMessage),
                       Said("assistant", "p")>>]

\* the chats of the sessions have been held, nothing is registered yet
InitCompletion ==
    /\ Constructed(CompletionVectors, CompletionVectors)
    /\ registrations = <<>>
    /\ NoCall
    /\ NoScoring
    /\ NoNormalizing
    /\ sessions = [s \in Sessions \cup {UnknownSession} |->
                      IF s \in Sessions THEN Greeted ELSE NoSession]
    /\ promptVersion = "v1"
    /\ issued = Sessions
    /\ requests = [r \in Callers |-> Idle]

\* the steps of a completion in which every collaborator call succeeds
NextReliable ==
    \/ \E r \in Callers, sessionId \in issued : CallComplete(r, sessionId)
    \/ \E r \in Callers : ExtractSessionOk(r)
    \/ \E r \in Callers, data \in Extracted : ExtractOk(r, data)
    \/ \E r \in Callers : DetectEmbedOk(r)
    \/ \E r \in Callers : DetectFetchOk(r)
    \/ \E r \in Callers : DetectLookupOk(r)
    \/ \E r \in Callers : CreateEmbedOk(r)
    \/ \E r \in Callers : InsertOk(r)
    \/ \E r \in Callers : CompleteOk(r)
    \/ \E r \in Callers : ReleaseCompletion(r)

NextCompletion ==
    \/ \E r \in Callers, sessionId \in issued \cup {UnknownSession, ""} :
          CallComplete(r, sessionId)
    \/ \E r \in Callers : ExtractSessionOk(r)
    \/ \E r \in Callers : ExtractSessionFail(r)
    \/ \E r \in Callers, data \in Extracted : ExtractOk(r, data)
    \/ \E r \in Callers : ExtractFail(r)
    \/ \E r \in Callers : DetectEmbedOk(r)
    \/ \E r \in Callers : DetectEmbedFail(r)
    \/ \E r \in Callers : DetectFetchOk(r)
    \/ \E r \in Callers : DetectFetchFail(r)
    \/ \E r \in Callers : DetectLookupOk(r)
    \/ \E r \in Callers : DetectLookupFail(r)
    \/ \E r \in Callers : CreateEmbedOk(r)
    \/ \E r \in Callers : CreateEmbedFail(r)
    \/ \E r \in Callers : InsertOk(r)
    \/ \E r \in Callers : InsertFail(r)
    \/ \E r \in Callers : CompleteOk(r)
    \/ \E r \in Callers : CompleteFail(r)
    \/ \E r \in Callers : ReleaseCompletion(r)

SpecCompletion == InitCompletion /\ [][NextCompletion]_vars

SpecReliable == InitCompletion /\ [][NextReliable]_vars

----------------------------------------------------------------------------
(* RegistrationRepository.createRegistration and updateRegistration *)

\* ids updateRegistration is called with: of the first two documents, and
\* one no document has
UpdateIds == {IdOf(1), IdOf(2), IdOf(3)}

\* a repository call as it enters its method
RepositoryCall(op, sessionId, id, data) ==
    [op |-> op, pc |-> "embedding", sessionId |-> sessionId, id |-> id,
     data |-> data, embedding |-> NoEmbedding, error |-> "", log |-> <<>>]

\* return this.mapToRegistration(...)
Resolved(req) == [req EXCEPT !.pc = "returned"]

\* the catch block of the method: it throws the method's own error
Rejected(req, events) ==
    [req EXCEPT !.pc = "threw",
                !.error = IF req.op = "create"
                          THEN "Failed to create registration"
                          ELSE "Failed to update registration",
                !.log = @ \o events]

\* variant: the update sets the data and keeps the embedding
setDataOnly(doc, data, embedding) ==
    [doc EXCEPT !.conversationData = data]

\* $set: { conversationData, metadata, embedding, updatedAt }
setDataAndEmbedding(doc, data, embedding) ==
    [doc EXCEPT !.conversationData = data, !.embedding = embedding]

\* findOneAndUpdate({ _id }, { $set }): null when no document has the id
findOneAndUpdate(store, id, data, embedding) ==
    IF \E i \in 1..Len(store) : IdOf(i) = id
    THEN [found |-> TRUE,
          store |-> [i \in 1..Len(store) |->
                        IF IdOf(i) = id
                        THEN setDataAndEmbedding(store[i], data, embedding)
                        ELSE store[i]]]
    ELSE [found |-> FALSE, store |-> store]

\* what the repository calls never touch
beyondRepository == <<fixedVars, callVars, scorerVars, normalizerVars,
                      sessions, promptVersion, issued>>

\* createRegistration is called and awaits generateEmbedding
CallCreate(r, sessionId, data) ==
    /\ requests[r] = Idle
    /\ Becomes(r, RepositoryCall("create", sessionId, NoRegistration, data))
    /\ UNCHANGED registrations
    /\ UNCHANGED beyondRepository

\* updateRegistration is called and awaits generateEmbedding
CallUpdate(r, id, data) ==
    /\ requests[r] = Idle
    /\ Becomes(r, RepositoryCall("update", "", id, data))
    /\ UNCHANGED registrations
    /\ UNCHANGED beyondRepository

\* generateEmbedding resolves in either method
RepositoryEmbedOk(r) ==
    /\ requests[r].op \in {"create", "update"}
    /\ requests[r].pc = "embedding"
    /\ Becomes(r, [requests[r] EXCEPT
                      !.pc = "write",
                      !.embedding = Embedding(GatewayVector(requests[r].data))])
    /\ UNCHANGED registrations
    /\ UNCHANGED beyondRepository

\* generateEmbedding rejects in either method
RepositoryEmbedFail(r) ==
    /\ requests[r].op \in {"create", "update"}
    /\ requests[r].pc = "embedding"
    /\ Becomes(r, Rejected(requests[r], <<"embedding:error">>))
    /\ UNCHANGED registrations
    /\ UNCHANGED beyondRepository

\* insertOne of createRegistration settles without a database error
CreateInsertOk(r) ==
    /\ At(r, "create", "write")
    /\ LET req == requests[r]
           inserted ==
               insertRegistration(registrations,
                                  NewRegistration(req.sessionId, "v1",
                                                  req.data, req.embedding))
       IN  /\ registrations' = inserted.store
           /\ Becomes(r, IF inserted.threw
                         THEN Rejected(req, <<"insert:error">>)
                         ELSE Resolved([req EXCEPT !.id = inserted.id]))
    /\ UNCHANGED beyondRepository

\* findOneAndUpdate of updateRegistration settles without a database
\* error; 'Registration not found' is thrown into the catch block
UpdateWriteOk(r) ==
    /\ At(r, "update", "write")
    /\ LET req == requests[r]
           updated == findOneAndUpdate(registrations, req.id, req.data,
                                       req.embedding)
       IN  /\ registrations' = updated.store
           /\ Becomes(r, IF updated.found THEN Resolved(req)
                         ELSE Rejected(req, <<"notFound">>))
    /\ UNCHANGED beyondRepository

\* insertOne or findOneAndUpdate rejects with a database error
RepositoryWriteFail(r) ==
    /\ requests[r].op \in {"create", "update"}
    /\ requests[r].pc = "write"
    /\ Becomes(r, Rejected(requests[r], <<"write:error">>))
    /\ UNCHANGED registrations
    /\ UNCHANGED beyondRepository

\* the caller has the registration or the error
RepositoryDone(r) ==
    /\ requests[r].op \in {"create", "update"}
    /\ requests[r].pc \in {"returned", "threw"}
    /\ Becomes(r, Idle)
    /\ UNCHANGED registrations
    /\ UNCHANGED beyondRepository

InitRepository ==
    /\ Constructed({}, {})
    /\ registrations = <<>>
    /\ NoCall
    /\ NoScoring
    /\ NoNormalizing
    /\ NoChat

NextRepository ==
    \/ \E r \in Callers, sessionId \in Sessions, data \in Extracted :
          CallCreate(r, sessionId, data)
    \/ \E r \in Callers, id \in UpdateIds, data \in Extracted :
          CallUpdate(r, id, data)
    \/ \E r \in Callers : RepositoryEmbedOk(r)
    \/ \E r \in Callers : RepositoryEmbedFail(r)
    \/ \E r \in Callers : CreateInsertOk(r)
    \/ \E r \in Callers : UpdateWriteOk(r)
    \/ \E r \in Callers : RepositoryWriteFail(r)
    \/ \E r \in Callers : RepositoryDone(r)

SpecRepository == InitRepository /\ [][NextRepository]_vars

----------------------------------------------------------------------------
(* Reading the log of a call *)

Logged(e) == \E i \in 1..Len(log) : log[i] = e

Count(e) == Cardinality({ i \in 1..Len(log) : log[i] = e })

TypeOK ==
    /\ pc \in {"START", "EMBEDDING", "RANKING", "EXACT_FALLBACK", "DECIDED"}
    /\ outcome \in {"none", "returned", "raised"}

\* the call is over
Done == pc = "DECIDED"

\* the embedding call succeeded
EmbedSucceeded == Logged("fetch")

\* the fetch of the registrations with embeddings succeeded
FetchSucceeded ==
    Logged("fetch") /\ ~Logged("fetch:error") /\ pc # "RANKING"

\* positions of the stored registrations
Stored == 1..Len(registrations)

\* the stored registrations that carry a non-empty vector
Candidates ==
    { i \in Stored : /\ registrations[i].embedding # NoEmbedding
                     /\ Len(registrations[i].embedding.vector) > 0 }

VectorOf(i) == registrations[i].embedding.vector

SameDimension(i) == Len(VectorOf(i)) = Len(newEmbedding)

SimilarityTo(i) == calculateCosineSimilarity(newEmbedding, VectorOf(i))

ReachesThreshold(i) ==
    SameDimension(i) /\ ScoreGeq(SimilarityTo(i), similarityThreshold)

\* i attains the maximum over C and comes first among those that do;
\* candidates are ranked newest first
IsTop(i, C) ==
    /\ i \in C
    /\ \A j \in C : /\ ScoreGeq(SimilarityTo(i), SimilarityTo(j))
                    /\ SimilarityTo(j) = SimilarityTo(i) => j =< i

ResultKeys ==
    {"isDuplicate", "similarityScore", "existingRegistrationId",
     "requiresConfirmation"}

\* what the exact-match fallback answers, given what the lookup returned
FallbackAnswer ==
    IF exactMatches # <<>>
    THEN [isDuplicate |-> TRUE, similarityScore |-> ScoreOne,
          existingRegistrationId |-> exactMatches[1].id,
          requiresConfirmation |-> TRUE]
    ELSE [isDuplicate |-> FALSE, requiresConfirmation |-> FALSE]

----------------------------------------------------------------------------
(* Claims *)

\* C1: detectDuplicate never raises for the expected failure modes: whatever
\* the outcomes of the embedding call, of the fetch of the candidates and of
\* the plate lookup, a finished call has returned a DuplicateResult.
C1_AlwaysReturnsResult ==
    Done =>
        /\ outcome = "returned"
        /\ {"isDuplicate", "requiresConfirmation"} \subseteq DOMAIN result
        /\ result.isDuplicate \in BOOLEAN
        /\ result.requiresConfirmation \in BOOLEAN

\* a call in which both the fetch and the plate lookup failed has returned
C1_Witness ==
    /\ Done
    /\ outcome = "returned"
    /\ Logged("fetch:error")
    /\ Logged("lookup:error")

\* C2 (as claimed): a dimension mismatch during the ranking is signalled to
\* the caller as an error; no result is returned and the plate fallback does
\* not run.
C2_MismatchIsFatal ==
    (Done /\ Logged("rank:error")) =>
        /\ outcome = "raised"
        /\ ~Logged("fallback")

\* C3 (as claimed): whenever the lookup does not fail and a stored record,
\* nested or flattened, with or without an embedding, has the new record's
\* plate after uppercasing and whitespace stripping, the call reports a
\* duplicate.
C3_PlateDuplicatesCaught ==
    (/\ Done
     /\ ~Logged("lookup:error")
     /\ Truthy(ExtractPlate(conversationData))
     /\ \E i \in Stored :
            /\ Truthy(ExtractPlate(registrations[i].conversationData))
            /\ normalizedPlate(ExtractPlate(registrations[i].conversationData))
                 = normalizedPlate(ExtractPlate(conversationData)))
    => (outcome = "returned" /\ result.isDuplicate)

\* C4 (as claimed): when the embedding call succeeds and some candidate
\* reaches the threshold, the call returns the top candidate as a duplicate
\* and makes no plate lookup.
C4_SemanticHitOriginal ==
    (/\ Done
     /\ FetchSucceeded
     /\ \E i \in Candidates : ReachesThreshold(i))
    => /\ outcome = "returned"
       /\ result.isDuplicate
       /\ result.requiresConfirmation
       /\ \E i \in Candidates :
             /\ IsTop(i, { j \in Candidates : SameDimension(j) })
             /\ result.similarityScore = SimilarityTo(i)
             /\ result.existingRegistrationId = IdOf(i)
       /\ ~Logged("lookup")

\* C4 (amended): when the embedding call succeeds, every candidate has the
\* dimension of the query vector and some candidate reaches the threshold,
\* the call returns isDuplicate and requiresConfirmation with the maximum
\* similarity over all candidates and the id of the first candidate, in
\* candidate order, that attains it; the plate lookup is not invoked.
C4_SemanticHit ==
    (/\ Done
     /\ FetchSucceeded
     /\ \A i \in Candidates : SameDimension(i)
     /\ \E i \in Candidates : ReachesThreshold(i))
    => /\ outcome = "returned"
       /\ DOMAIN result = ResultKeys
       /\ result.isDuplicate
       /\ result.requiresConfirmation
       /\ \E i \in Candidates :
             /\ IsTop(i, Candidates)
             /\ result.similarityScore = SimilarityTo(i)
             /\ result.existingRegistrationId = IdOf(i)
       /\ ~Logged("fallback")
       /\ ~Logged("lookup")

\* two candidates reach the threshold with different similarities, the
\* older one being the more similar
C4_Witness ==
    /\ Done
    /\ FetchSucceeded
    /\ \A i \in Candidates : SameDimension(i)
    /\ \E i, j \in Candidates :
          /\ i < j
          /\ ReachesThreshold(i)
          /\ ReachesThreshold(j)
          /\ SimilarityTo(i) # SimilarityTo(j)
          /\ ScoreGeq(SimilarityTo(i), SimilarityTo(j))
          /\ result.isDuplicate
          /\ result.existingRegistrationId = IdOf(i)

\* C5: when the embedding call fails, nothing is fetched or ranked and the
\* call returns exactly the answer of the exact-match fallback, a duplicate
\* with score 1.0 if the lookup found a record and no duplicate otherwise;
\* the embedding error is not propagated.
C5_EmbeddingFailureFallsBack ==
    (Done /\ Logged("embed:error")) =>
        /\ outcome = "returned"
        /\ ~Logged("fetch")
        /\ ~Logged("rank")
        /\ existingRegistrations = <<>>
        /\ Count("fallback") = 1
        /\ result = FallbackAnswer

\* the embedding call failed and the lookup found the plate
C5_Witness ==
    /\ Done
    /\ Logged("embed:error")
    /\ exactMatches # <<>>
    /\ result.isDuplicate

\* what RegistrationDataSchema makes of a plate: upper case, no whitespace
SchemaPlate(p) == Truthy(p) /\ stripWhitespace(toUpperCase(p)) = p

\* a record as extractConversationData delivers it: flattened, licensePlate
SchemaShaped(data) ==
    /\ data.carPlate = Absent
    /\ data.license_plate = Absent
    /\ SchemaPlate(data.licensePlate)

C7_EmptyCorpusShortCircuit ==
    (/\ Done
     /\ FetchSucceeded
     /\ \A i \in Stored : registrations[i].embedding = NoEmbedding)
    => /\ outcome = "returned"
       /\ result = [isDuplicate |-> FALSE, requiresConfirmation |-> FALSE]
       /\ log = <<"embed", "fetch">>
       /\ lookupKey = NoKey

\* registrations are stored, none with an embedding, and the new record
\* has a plate; the call has returned without a lookup
C7_Witness ==
    /\ Done
    /\ FetchSucceeded
    /\ Stored # {}
    /\ \A i \in Stored : registrations[i].embedding = NoEmbedding
    /\ Truthy(conversationData.licensePlate)
    /\ ~result.isDuplicate

\* C8: the exact-match fallback takes the plate from the nested location
\* first and from the flattened locations after it; with a plate and a
\* lookup that returns records the answer is a duplicate with score 1.0 and
\* the id of the first returned record; with no plate (the lookup is then not
\* invoked), nothing found or a failed lookup the answer is no duplicate.
C8_ExactFallbackResult ==
    (Done /\ Logged("fallback")) =>
        LET d == conversationData
            flat == { p \in {d.license_plate, d.licensePlate} : Truthy(p) }
            none == [isDuplicate |-> FALSE, requiresConfirmation |-> FALSE]
        IN  /\ outcome = "returned"
            /\ IF Truthy(d.carPlate)
               THEN Count("lookup") = 1 /\ lookupKey = d.carPlate
               ELSE IF flat # {}
               THEN Count("lookup") = 1 /\ lookupKey \in flat
               ELSE ~Logged("lookup") /\ result = none
            /\ Logged("lookup:error") => result = none
            /\ (Logged("lookup") /\ ~Logged("lookup:error")) =>
                  LET returned ==
                          findByLicensePlate(registrations, lookupKey).docs
                  IN  IF returned # <<>>
                      THEN result =
                             [isDuplicate |-> TRUE,
                              similarityScore |-> ScoreOne,
                              existingRegistrationId |-> returned[1].id,
                              requiresConfirmation |-> TRUE]
                      ELSE result = none

\* the record carries different plates in the nested and in a flattened
\* location and the lookup of the nested one found a record
C8_Witness ==
    /\ Done
    /\ Logged("fallback")
    /\ Truthy(conversationData.carPlate)
    /\ Truthy(conversationData.licensePlate)
    /\ conversationData.carPlate # conversationData.licensePlate
    /\ result.isDuplicate

\* the flattened plates of a stored registration
FlatPlates(i) ==
    { p \in { registrations[i].conversationData.license_plate,
              registrations[i].conversationData.licensePlate } : p # Absent }

AnswerFromOutcomes ==
    LET ranked ==
            findSimilarEmbeddings(newEmbedding,
                                  candidateEmbeddings(existingRegistrations),
                                  similarityThreshold)
    IN  IF Logged("rank") /\ ~ranked.threw /\ ranked.results # <<>>
        THEN [isDuplicate |-> TRUE,
              similarityScore |-> ranked.results[1].similarity,
              existingRegistrationId |-> ranked.results[1].id,
              requiresConfirmation |-> TRUE]
        ELSE FallbackAnswer

\* C10: on every path the returned object has no keys besides isDuplicate,
\* similarityScore, existingRegistrationId and requiresConfirmation, its
\* values are booleans, a numeric score and a stored record's identifier,
\* and it is determined by what the embedding call, the fetch and the lookup
\* returned, so that records differing only in their values get the same
\* answer from the same outcomes.
C10_ResultIsPrivate ==
    Done =>
        /\ outcome = "returned"
        /\ DOMAIN result \subseteq ResultKeys
        /\ result.isDuplicate \in BOOLEAN
        /\ result.requiresConfirmation \in BOOLEAN
        /\ result.isDuplicate =>
              /\ DOMAIN result = ResultKeys
              /\ result.existingRegistrationId \in { IdOf(i) : i \in Stored }
              /\ IsNumber(result.similarityScore)
        /\ result = AnswerFromOutcomes

\* a record with a plate was found similar to a stored one
C10_Witness ==
    /\ Done
    /\ Truthy(conversationData.licensePlate)
    /\ Logged("rank")
    /\ ~Logged("fallback")
    /\ result.isDuplicate

----------------------------------------------------------------------------
(* C11: generateConfirmationMessage returns one fixed sentence, whatever   *)
(* was detected before and whatever the store holds: the sentence says     *)
(* that a similar registration was found and asks to confirm with "yes"    *)
(* or "confirm"; no record data is in it.                                  *)
C11_FixedConfirmationMessage ==
    message # NoMessage =>
        message = "A similar registration was found in our system. Would you like to update the existing information? Please confirm by saying \"yes\" or \"confirm\"."

\* the message was generated after a plate duplicate was detected in a
\* store of two registrations
C11_Witness ==
    /\ message # NoMessage
    /\ Done
    /\ outcome = "returned"
    /\ result.isDuplicate
    /\ Truthy(lookupKey)
    /\ Len(registrations) = 2

----------------------------------------------------------------------------
(* C12: in every result detectDuplicate returns, requiresConfirmation      *)
(* equals isDuplicate; similarityScore and existingRegistrationId are both *)
(* present when isDuplicate is true and both absent when it is false.      *)
C12_ResultShape ==
    (Done /\ outcome = "returned") =>
        /\ result.requiresConfirmation = result.isDuplicate
        /\ result.isDuplicate =>
               {"similarityScore", "existingRegistrationId"}
                   \subseteq DOMAIN result
        /\ ~result.isDuplicate =>
               {"similarityScore", "existingRegistrationId"}
                   \cap DOMAIN result = {}

\* a result without a duplicate, returned by the plate lookup of a
\* non-empty store
C12_Witness ==
    /\ Done
    /\ outcome = "returned"
    /\ ~result.isDuplicate
    /\ Logged("lookup")
    /\ Len(registrations) > 0

----------------------------------------------------------------------------
\* the similarity of the target to the i-th candidate
CosineTo(i) == calculateCosineSimilarity(query, corpus[i].vector)

\* findSimilarEmbeddings has returned
Ranked == hits # NoResult /\ ~hits.threw

\* the places of the result that hold the i-th candidate
PlacesOf(i) == { k \in 1..Len(hits.results) : hits.results[k].id = IdOf(i) }

\* C13: findSimilarEmbeddings returns exactly the candidates whose
\* similarity to the target is at or above the threshold: no returned entry
\* is below the threshold, every candidate at or above it, one exactly at
\* the threshold included, is returned once with its similarity, and a
\* higher threshold never gives more results for the same inputs.
C13_ExactlyAtOrAboveThreshold ==
    Ranked =>
        /\ \A k \in 1..Len(hits.results) :
              /\ ScoreGeq(hits.results[k].similarity, cutoff)
              /\ \E i \in 1..Len(corpus) :
                    /\ hits.results[k].id = IdOf(i)
                    /\ hits.results[k].similarity = CosineTo(i)
        /\ \A i \in 1..Len(corpus) :
              Cardinality(PlacesOf(i))
                  = IF ScoreGeq(CosineTo(i), cutoff) THEN 1 ELSE 0
        /\ \A higher \in Thresholds :
              ScoreGeq(higher, cutoff) =>
                  Len(findSimilarEmbeddings(query, corpus, higher).results)
                      =< Len(hits.results)

\* of three candidates one exactly at the threshold was returned and another
\* one was dropped
C13_Witness ==
    /\ Ranked
    /\ Len(corpus) = 3
    /\ Len(hits.results) = 1
    /\ hits.results[1].similarity = cutoff
    /\ \E i \in 1..Len(corpus) :
          CosineTo(i) # FZero /\ ~ScoreGeq(CosineTo(i), cutoff)

----------------------------------------------------------------------------
\* C14: the entries findSimilarEmbeddings returns are sorted by similarity,
\* highest first, and entries of equal similarity keep the order their
\* candidates had in the input, so that the result is the same whenever the
\* inputs are.
C14_DescendingAndStable ==
    Ranked =>
        /\ \A k, l \in 1..Len(hits.results) :
              k < l =>
                  /\ ScoreGeq(hits.results[k].similarity,
                              hits.results[l].similarity)
                  /\ hits.results[k].similarity = hits.results[l].similarity
                        => \E i, j \in 1..Len(corpus) :
                              /\ i < j
                              /\ hits.results[k].id = corpus[i].id
                              /\ hits.results[l].id = corpus[j].id
        /\ hits = findSimilarEmbeddings(query, corpus, cutoff)

\* the last candidate was ranked first and the two before it tie
C14_Witness ==
    /\ Ranked
    /\ Len(hits.results) = 3
    /\ hits.results[1].id = corpus[3].id
    /\ hits.results[2].similarity = hits.results[3].similarity

----------------------------------------------------------------------------
\* calculateCosineSimilarity has been applied to the target and a candidate
Compared == probe # 0

ProbeVector == corpus[probe].vector

IsZeroVector(v) == \A i \in 1..Len(v) : v[i] = 0

\* C15: calculateCosineSimilarity fails with the dimension error if and
\* only if its two vectors differ in length; the lengths are checked first,
\* so that a vector of zeros against a vector of another length is an
\* error too and not the value 0.
C15_MismatchIffLengthsDiffer ==
    Compared =>
        /\ cosine = DimensionError <=> Len(query) # Len(ProbeVector)
        /\ Len(query) # Len(ProbeVector) /\ IsZeroVector(query)
              => cosine # FZero

\* the zero vector was compared with a vector of another length
C15_Witness ==
    /\ Compared
    /\ IsZeroVector(query)
    /\ Len(query) # Len(ProbeVector)
    /\ cosine = DimensionError

----------------------------------------------------------------------------
\* -v
Opposite(v) == [i \in 1..Len(v) |-> 0 - v[i]]

\* -x
FNeg(x) == [x EXCEPT !.sgn = 0 - x.sgn]

\* the distance from 1 that the roundings of the two roots, the product and
\* the quotient allow: UlpsOff steps of 2^-MantissaBits
UlpsOff == 4

\* 1 - UlpsOff * 2^-MantissaBits <= x <= 1 + UlpsOff * 2^-MantissaBits
NearOne(x) ==
    /\ x.sgn = 1
    /\ \/ /\ x.exp = 0 - MantissaBits
          /\ BLeq(BPow2(MantissaBits), BAdd(x.mant, <<UlpsOff>>))
       \/ /\ x.exp = 1 - MantissaBits
          /\ BLeq(BAdd(x.mant, x.mant),
                  BAdd(BPow2(MantissaBits), <<UlpsOff>>))

----------------------------------------------------------------------------
\* normalizeDataForEmbedding has returned
Normalized == text # NoResult

\* the values of the logical fields in the nested places of a record, in
\* its flat places and in its schema places
NestedOf(data) ==
    <<data.car.type, data.car.manufacturer, data.car.model, data.car.year,
      data.car.license_plate, data.customer.name, data.customer.birthdate>>

FlatOf(data) ==
    <<data.car_type, data.manufacturer, data.model,
      data.year_of_construction, data.license_plate, data.customer_name,
      data.birthdate>>

SchemaOf(data) ==
    <<data.carType, data.manufacturer, data.model, data.year,
      data.licensePlate, data.customerName, data.birthdate>>

Labels ==
    <<"Car Type", "Manufacturer", "Model", "Year", "License Plate",
      "Customer", "Birthdate">>

\* the value of field f as the canonical text shows it: plates in upper
\* case without whitespace, names in lower case and trimmed
Shown(f, value) ==
    IF f = 5 THEN JoinChars(stripWhitespace(toUpperCase(value)))
    ELSE IF f = 6 THEN JoinChars(trim(toLowerCase(value)))
    ELSE JoinChars(value)

\* the fields a record holds, each once, the nested value before the flat
RECURSIVE FieldsFrom(_, _)
FieldsFrom(data, f) ==
    IF f > 7 THEN <<>>
    ELSE (IF Truthy(NestedOf(data)[f])
          THEN <<Labels[f] \o ": " \o Shown(f, NestedOf(data)[f])>>
          ELSE IF Truthy(FlatOf(data)[f])
          THEN <<Labels[f] \o ": " \o Shown(f, FlatOf(data)[f])>>
          ELSE <<>>)
         \o FieldsFrom(data, f + 1)

\* the canonical text of a record: its fields in the fixed order
Canonical(data) == Join(FieldsFrom(data, 1), ", ")

HoldsNested(data, f) == Truthy(NestedOf(data)[f])

HoldsFlat(data, f) == Truthy(FlatOf(data)[f])

\* C17: for every record, nested, flat or mixing the two shapes, the text
\* shows the fields in the order car type, manufacturer, model, year,
\* license plate, customer name, birthdate, each as "<Label>: <value>",
\* joined with ", " (here: for records that hold no field in both shapes).
C17_FixedEmissionOrder ==
    /\ Normalized
    /\ \E f \in Fields : HoldsNested(record, f) \/ HoldsFlat(record, f)
    /\ \A f \in Fields : ~(HoldsNested(record, f) /\ HoldsFlat(record, f))
    => text.value = Canonical(record)

----------------------------------------------------------------------------
\* C18: when a field is present both in its nested place (car.*,
\* customer.*) and in its flat top-level place of the same record, the text
\* shows that field exactly once, with the nested value (here: for records
\* whose flat fields are all present nested as well).
C18_NoDoubleCounting ==
    /\ Normalized
    /\ \E f \in Fields : HoldsNested(record, f) /\ HoldsFlat(record, f)
    /\ \A f \in Fields : HoldsFlat(record, f) => HoldsNested(record, f)
    => text.value = Canonical(record)

----------------------------------------------------------------------------
\* every value of the record sits in a top-level key of the schema
Flattened(data) == data = SchemaData(SchemaOf(data))

\* the nested record of the same values
NestedTwin(data) ==
    RepositoryData(SchemaOf(data), [f \in Fields |-> Absent])

\* C19: a nested record (car.manufacturer, car.model, car.year,
\* car.license_plate, customer.name, customer.birthdate) and a flattened
\* record (manufacturer, licensePlate, customerName, ...) of the same
\* values are normalized to the same text.
C19_ShapeEquivalence ==
    Normalized /\ Flattened(record) =>
        text.value = normalizeDataForEmbedding(NestedTwin(record))

----------------------------------------------------------------------------
\* C20: normalizeDataForEmbedding never returns the empty text: a record
\* without a recognized field gives "No data available", so the text that
\* generateEmbedding hands to the embedding call is never empty.
C20_NeverEmpty ==
    Normalized =>
        /\ text.value # ""
        /\ (\A f \in Fields :
               ~HoldsNested(record, f) /\ ~HoldsFlat(record, f))
              => text.value = "No data available"

\* a record without any field was normalized
C20_Witness ==
    /\ Normalized
    /\ \A f \in Fields : ~HoldsNested(record, f) /\ ~HoldsFlat(record, f)
    /\ Flattened(record)
    /\ \A f \in Fields : ~Truthy(SchemaOf(record)[f])
    /\ text.value = Sentinel


\* C24: the scorer is invoked only when some stored record carries a
\* non-empty embedding vector, and whenever detectDuplicate returns the
\* identifier of a record that has no embedding or an empty vector, the
\* result is the one of the exact plate match: the first record the lookup
\* returned, with similarityScore 1.0.
C24_UnembeddedOnlyByExactMatch ==
    /\ Logged("rank") => Candidates # {}
    /\ (/\ Done
        /\ outcome = "returned"
        /\ result.isDuplicate
        /\ result.existingRegistrationId \notin Candidates) =>
           /\ Logged("lookup")
           /\ ~Logged("lookup:error")
           /\ exactMatches # <<>>
           /\ result.existingRegistrationId = exactMatches[1].id
           /\ result.similarityScore = ScoreOne

\* the embedding call succeeded, the store holds a record with a vector and
\* the call still returned a record that has none
C24_Witness ==
    /\ Done
    /\ EmbedSucceeded
    /\ Logged("rank")
    /\ result.isDuplicate
    /\ result.existingRegistrationId \notin Candidates
    /\ registrations[result.existingRegistrationId].embedding = NoEmbedding


\* the requests of an endpoint that have been answered
AnsweredRequests(op) ==
    { r \in Callers : requests[r].op = op /\ requests[r].pc = "responded" }

Succeeded(r) == requests[r].response.status = 200

CalledBy(r, e) ==
    \E i \in 1..Len(requests[r].log) : requests[r].log[i] = e

\* the session sendMessage read is missing or not active
ReadUnusable(req) ==
    IF req.session = NoSession THEN TRUE ELSE req.session.state # "active"

\* C26: the status of a failed request reflects its cause on every
\* endpoint: 400 exactly for invalid input, 404 exactly for a session that
\* is not found, 500 exactly for an unexpected error such as a failure of
\* the database or of the model.
C26_StatusReflectsCause ==
    \A r \in Callers :
        (requests[r].pc = "responded" /\ ~Succeeded(r)) =>
            LET status == requests[r].response.status
                cause == requests[r].cause
            IN  /\ status = 400 <=> cause = "invalid"
                /\ status = 404 <=> cause = "notFound"
                /\ status = 500 <=> cause = "unexpected"

\* C27: a session is created in state 'active'; a stored session stays
\* stored and the only change of its state is to 'completed'; a sendMessage
\* whose getSession found no session or a session that is not active fails
\* with 'Failed to send message', makes no model call and changes no stored
\* session.
C27_SessionLifecycle ==
    [][/\ \A s \in DOMAIN sessions :
             IF sessions[s] = NoSession
             THEN sessions'[s] # NoSession => sessions'[s].state = "active"
             ELSE /\ sessions'[s] # NoSession
                  /\ \/ sessions'[s].state = sessions[s].state
                     \/ /\ sessions[s].state = "active"
                        /\ sessions'[s].state = "completed"
       /\ \A r \in Callers :
             (/\ At(r, "message", "getSession")
              /\ requests'[r] # requests[r]
              /\ ~CalledBy(r, "getSession:error")'
              /\ ReadUnusable(requests'[r])) =>
                 /\ requests'[r].pc = "responded"
                 /\ requests'[r].response.body =
                       createErrorResponse("Failed to send message", 400)
                 /\ ~CalledBy(r, "generateText")'
                 /\ ~CalledBy(r, "updateSessionMessages")'
                 /\ sessions' = sessions]_vars

\* one sendMessage found its session completed, the other found none
C27_Witness ==
    \E r \in AnsweredRequests("message"), q \in AnsweredRequests("message") :
        /\ requests[r].session # NoSession
        /\ requests[r].session.state = "completed"
        /\ requests[r].cause = "invalid"
        /\ requests[q].session = NoSession
        /\ requests[q].cause = "notFound"

\* the user's message of a request and the reply to it
Exchange(req) ==
    <<Said("user", req.message), Said("assistant", req.text)>>

IsPrefix(s, t) == Len(s) =< Len(t) /\ SubSeq(t, 1, Len(s)) = s

\* C28: when two sendMessage calls on the same session have both succeeded,
\* the stored messages hold both exchanges, each user message directly
\* followed by its reply, at different places, after the messages each call
\* found, which are still there in their order.
C28_NoLostUpdate ==
    \A r \in AnsweredRequests("message"), q \in AnsweredRequests("message") :
        (/\ r # q
         /\ Succeeded(r)
         /\ Succeeded(q)
         /\ requests[r].sessionId = requests[q].sessionId) =>
            LET stored == sessions[requests[r].sessionId].messages
                Places(req) ==
                    { i \in 1..(Len(stored) - 1) :
                         /\ SubSeq(stored, i, i + 1) = Exchange(req)
                         /\ i > Len(req.session.messages) }
            IN  /\ IsPrefix(requests[r].session.messages, stored)
                /\ IsPrefix(requests[q].session.messages, stored)
                /\ \E i \in Places(requests[r]), j \in Places(requests[q]) :
                      i # j

\* the completions that have been answered
AnsweredCompletions == AnsweredRequests("complete")

\* caller r took the step
Moved(r) == requests'[r] # requests[r]

\* detectDuplicate reported a duplicate that requires confirmation
ReportedDuplicate(req) ==
    IF req.result = NoResult THEN FALSE
    ELSE req.result.isDuplicate /\ req.result.requiresConfirmation

\* the answer of a failed completion
CompletionError ==
    [status |-> 400,
     body |-> createErrorResponse("Failed to complete chat session", 400)]

\* C22: a completion whose detectDuplicate reports isDuplicate and
\* requiresConfirmation creates no registration and does not mark the
\* session completed (the session keeps its state); it is answered at once
\* with success = false, duplicateDetected = true,
\* duplicateConfirmationRequired = true and the fixed confirmation message.
C22_DuplicateChangesNothing ==
    [][\A r \in Callers :
          (/\ requests'[r].op = "complete"
           /\ Moved(r)
           /\ ReportedDuplicate(requests'[r])) =>
              /\ registrations' = registrations
              /\ sessions' = sessions
              /\ requests[r].result = NoResult
              /\ requests'[r].pc = "responded"
              /\ requests'[r].response =
                    [status |-> 200,
                     body |->
                        [success |-> FALSE,
                         message |->
                            "A similar registration was found in our system. "
                            \o "Would you like to update the existing "
                            \o "information? Please confirm by saying "
                            \o "\"yes\" or \"confirm\".",
                         duplicateDetected |-> TRUE,
                         duplicateConfirmationRequired |-> TRUE]]]_vars

\* a completion met the registration of another session: it is answered
\* with the confirmation prompt and its session is still active
C22_Witness ==
    \E r \in AnsweredCompletions :
        /\ ReportedDuplicate(requests[r])
        /\ requests[r].response.body = DuplicateAnswer
        /\ sessions[requests[r].sessionId].state = "active"
        /\ Len(registrations) = 1
        /\ registrations[1].sessionId # requests[r].sessionId

\* C23: in handleChatComplete nothing is written before detectDuplicate has
\* returned; a registration is inserted only by a completion whose detection
\* reported no duplicate; a session is marked 'completed' only by a
\* completion whose registration is stored; a completion whose
\* createRegistration fails is answered with the error and leaves the
\* sessions as they are.
C23_CompletionOrdering ==
    [][/\ registrations' # registrations =>
             \E r \in Callers :
                 /\ At(r, "complete", "insert")
                 /\ Moved(r)
                 /\ requests[r].result = NoDuplicate
                 /\ Len(registrations') = Len(registrations) + 1
                 /\ registrations'[Len(registrations')].sessionId =
                       requests[r].sessionId
       /\ sessions' # sessions =>
             \E r \in Callers :
                 /\ At(r, "complete", "completeSession")
                 /\ Moved(r)
                 /\ requests[r].result = NoDuplicate
                 /\ requests[r].registrationId \in 1..Len(registrations)
                 /\ registrations[requests[r].registrationId].sessionId =
                       requests[r].sessionId
                 /\ registrations' = registrations
                 /\ sessions'[requests[r].sessionId].state = "completed"
       /\ \A r \in Callers :
             (/\ requests[r].op = "complete"
              /\ requests[r].pc \in {"createEmbedding", "insert"}
              /\ Moved(r)
              /\ \/ CalledBy(r, "createEmbedding:error")'
                 \/ CalledBy(r, "insert:error")') =>
                 /\ requests'[r].pc = "responded"
                 /\ requests'[r].response = CompletionError
                 /\ registrations' = registrations
                 /\ sessions' = sessions]_vars

\* one completion stored its registration and completed its session; the
\* insert of another failed and its session is still active
C23_Witness ==
    \E r \in AnsweredCompletions, q \in AnsweredCompletions :
        /\ Succeeded(r)
        /\ requests[r].registrationId \in 1..Len(registrations)
        /\ sessions[requests[r].sessionId].state = "completed"
        /\ CalledBy(q, "insert:error")
        /\ requests[q].response = CompletionError
        /\ sessions[requests[q].sessionId].state = "active"

\* what the ranking of detectDuplicate finds for a vector in a store
RankedIn(vector, store) ==
    findSimilarEmbeddings(
        vector,
        candidateEmbeddings(getAllRegistrationsWithEmbeddings(store)),
        similarityThreshold)

\* C25: no step of detectDuplicate, on any path, changes the registrations
\* or the sessions, and the service keeps nothing between or across calls:
\* the vector a call ranks is the one it got for its own record, and what
\* the ranking and the plate lookup decide is a function of the call's own
\* record and vector and of the store as it is at that step, also while
\* another call is running.
C25_DetectionReadOnlyStateless ==
    [][\A r \in Callers :
          (/\ requests[r].op = "complete"
           /\ requests[r].pc \in {"embedding", "ranking", "lookup"}
           /\ Moved(r)) =>
              /\ registrations' = registrations
              /\ sessions' = sessions
              /\ requests'[r].data = requests[r].data
              /\ requests'[r].pc = "ranking" =>
                    requests'[r].newEmbedding =
                       GatewayVector(requests[r].data)
              /\ (/\ requests[r].pc = "ranking"
                  /\ ~CalledBy(r, "fetch:error")') =>
                    LET similar ==
                            RankedIn(requests[r].newEmbedding, registrations)
                    IN  IF similar.threw THEN CalledBy(r, "rank:error")'
                        ELSE IF Len(similar.results) > 0
                        THEN requests'[r].result =
                                Duplicate(similar.results[1].similarity,
                                          similar.results[1].id)
                        ELSE ~ReportedDuplicate(requests'[r])
              /\ (/\ requests[r].pc = "lookup"
                  /\ ~CalledBy(r, "lookup:error")') =>
                    LET found ==
                            findByLicensePlate(registrations,
                                               ExtractPlate(requests[r].data))
                    IN  requests'[r].result =
                           IF Len(found.docs) > 0
                           THEN Duplicate(ScoreOne, found.docs[1].id)
                           ELSE NoDuplicate]_vars

\* two detections run at once on different records: one has ranked its
\* vector and met a duplicate, the other holds another vector
C25_Witness ==
    \E r \in Callers, q \in Callers :
        /\ requests[r].op = "complete"
        /\ requests[r].pc = "ranking"
        /\ q \in AnsweredCompletions
        /\ ReportedDuplicate(requests[q])
        /\ requests[q].result.similarityScore # ScoreOne
        /\ GatewayVector(requests[q].data) # requests[r].newEmbedding
        /\ ~CalledBy(q, "embed:error")

\* C29: when generateEmbedding fails in detectDuplicate and no stored plate
\* matches the record, detectDuplicate returns no duplicate and
\* createRegistration is called; when its generateEmbedding fails too the
\* completion is answered with 'Failed to complete chat session', no
\* registration is stored and the session keeps its state.
C29_DegradedEmbeddingBlocks ==
    [][\A r \in Callers :
          /\ (/\ At(r, "complete", "lookup")
              /\ Moved(r)
              /\ CalledBy(r, "embed:error")
              /\ Len(findByLicensePlate(
                        registrations,
                        ExtractPlate(requests[r].data)).docs) = 0) =>
                 /\ requests'[r].result = NoDuplicate
                 /\ requests'[r].pc = "createEmbedding"
                 /\ registrations' = registrations
                 /\ sessions' = sessions
          /\ (/\ At(r, "complete", "createEmbedding")
              /\ Moved(r)
              /\ CalledBy(r, "createEmbedding:error")') =>
                 /\ requests'[r].pc = "responded"
                 /\ requests'[r].response = CompletionError
                 /\ registrations' = registrations
                 /\ sessions' = sessions]_vars

\* both embedding calls of a completion failed and no plate matched: the
\* completion failed, nothing is stored, its session is active
C29_Witness ==
    \E r \in AnsweredCompletions :
        /\ CalledBy(r, "embed:error")
        /\ CalledBy(r, "createEmbedding:error")
        /\ requests[r].result = NoDuplicate
        /\ requests[r].response = CompletionError
        /\ registrations = <<>>
        /\ sessions[requests[r].sessionId].state = "active"

\* C30: with every collaborator call succeeding, after any interleaving of
\* handleChatComplete calls from different sessions no two registrations in
\* the store have the same licence plate.
C30_OneRegistrationPerPlate ==
    \A i \in 1..Len(registrations), j \in 1..Len(registrations) :
        (/\ i # j
         /\ registrations[i].sessionId # registrations[j].sessionId) =>
            ExtractPlate(registrations[i].conversationData) #
               ExtractPlate(registrations[j].conversationData)

\* C21: after any sequence of createRegistration and updateRegistration
\* calls every stored registration carries the embedding generated from the
\* conversationData it holds now; a call whose generateEmbedding fails
\* throws the method's error and leaves the store unchanged.
C21_EmbeddingFollowsData ==
    [][/\ \A i \in 1..Len(registrations') :
             registrations'[i].embedding =
                Embedding(GatewayVector(registrations'[i].conversationData))
       /\ \A r \in Callers :
             (/\ requests[r].op \in {"create", "update"}
              /\ requests[r].pc = "embedding"
              /\ Moved(r)
              /\ CalledBy(r, "embedding:error")') =>
                 /\ registrations' = registrations
                 /\ requests'[r].pc = "threw"
                 /\ requests'[r].error =
                       IF requests[r].op = "create"
                       THEN "Failed to create registration"
                       ELSE "Failed to update registration"]_vars

\* a registration was created with one record and updated to another, and
\* a call whose embedding failed has thrown
C21_Witness ==
    \E r \in Callers, q \in Callers :
        /\ requests[r].op = "update"
        /\ requests[r].pc = "returned"
        /\ requests[r].id = IdOf(1)
        /\ registrations # <<>>
        /\ registrations[1].conversationData = requests[r].data
        /\ registrations[1].conversationData.licensePlate = <<"T", "-", "9">>
        /\ requests[q].pc = "threw"
        /\ CalledBy(q, "embedding:error")

====
